---- MODULE Spec2Model ----
(***************************************************************************)
(* Model of the detect-changes scripts of groupsky/homy.                   *)
(*                                                                         *)
(* Registry-existence client (lib/ghcr_client.py): check_image_exists,     *)
(* check_all_services and validate_fork_pr_base_images, run against an     *)
(* existence oracle (docker buildx imagetools inspect) whose next answer   *)
(* is the variable `registry`.                                             *)
(*                                                                         *)
(* Texts (image tags, the oracle's stderr, error messages) are sequences   *)
(* of lexemes; Python's `x in s` on strings is containment of a contiguous *)
(* run of lexemes.  The sample texts are cut so that the patterns the code *)
(* searches for fall on lexeme boundaries.                                 *)
(*                                                                         *)
(* Library functions (lib/dependency_graph.py, change_detection.py,        *)
(* base_images.py, version_normalizer.py, dockerfile_parser.py, output.py, *)
(* services.py) and steps 1 to 6 of main (detect_changes.py): LibSpec      *)
(* applies each to arguments drawn at the start; FinalStageSpec runs the   *)
(* loop of extract_final_stage_base step by step; MainSpec runs main from  *)
(* step 1 to its exit together with the client it calls in steps 7 and 8.  *)
(***************************************************************************)
EXTENDS Integers, Sequences, FiniteSets, TLC

VARIABLES
    registry,            \* what the oracle answers when it is invoked next
    op,                  \* the function called ("idle" before the call)
    caller_pc,           \* position of check_all_services / validate_fork_pr_base_images
    image_tag,           \* check_image_exists: argument image_tag
    retries,             \* check_image_exists: argument retries
    attempt,             \* check_image_exists: local attempt
    pc,                  \* check_image_exists: position in the function
    result,              \* check_image_exists: value returned or error raised
    message,             \* check_image_exists: head of the error message
    calls,               \* oracle answers received by the current check
    sleeps,              \* time.sleep durations of the current check
    services,            \* check_all_services: argument services
    to_build,            \* check_all_services: local to_build
    to_retag,            \* check_all_services: local to_retag
    is_fork,             \* validate_fork_pr_base_images: argument is_fork
    base_images_needed,  \* validate_fork_pr_base_images: argument
    missing_images,      \* validate_fork_pr_base_images: local missing_images
    error_msg,           \* validate_fork_pr_base_images: text of the error
    idx,                 \* position of the for loop in its list
    checked,             \* tags handed to check_image_exists, in call order
    outcomes,            \* how each of those checks ended, in call order
    fn,                  \* library function applied ("none" for the client)
    args,                \* its arguments
    locals,              \* its local variables while it runs
    ret                  \* <<>> until it ends, then <<value returned or error>>

vars == <<registry, op, caller_pc, image_tag, retries, attempt, pc, result,
          message, calls, sleeps, services, to_build, to_retag, is_fork,
          base_images_needed, missing_images, error_msg, idx, checked,
          outcomes, fn, args, locals, ret>>

libVars == <<fn, args, locals, ret>>
checkVars == <<image_tag, retries, attempt, pc, result, message, calls, sleeps>>
batchVars == <<services, to_build, to_retag>>
forkVars  == <<is_fork, base_images_needed, missing_images, error_msg>>

----------------------------------------------------------------------------
(* Bounds *)

MaxRetries == 3      \* largest attempt budget of a direct check
MaxItems == 2        \* longest service list / required-tag list

----------------------------------------------------------------------------
(* Texts *)

\* str.lower() on one lexeme
LowerWord(w) ==
    CASE w = "ERROR:" -> "error:"
      [] w = "Service" -> "service"
      [] w = "Unavailable" -> "unavailable"
      [] w = "MANIFEST_UNKNOWN" -> "manifest_unknown"
      [] w = "Not" -> "not"
      [] w = "Found" -> "found"
      [] w = "Connection" -> "connection"
      [] w = "Timeout" -> "timeout"
      [] OTHER -> w

\* str.lower()
Lower(text) == [i \in 1..Len(text) |-> LowerWord(text[i])]

\* pattern in text
Contains(text, pattern) ==
    \E i \in 0..(Len(text) - Len(pattern)) :
        SubSeq(text, i + 1, i + Len(pattern)) = pattern

\* a ** b for b >= 0
RECURSIVE Pow(_, _)
Pow(a, b) == IF b <= 0 THEN 1 ELSE a * Pow(a, b - 1)

----------------------------------------------------------------------------
(* The existence oracle: subprocess.run of docker buildx imagetools inspect *)

Completed(returncode, stderr) ==
    [kind |-> "completed", returncode |-> returncode, stderr |-> stderr]

Raised(exception) ==
    [kind |-> exception, returncode |-> 1, stderr |-> <<>>]

OK == Completed(0, <<>>)

\* stderr texts of a failed inspect (returncode 1)
Diagnostics ==
    { <<"ERROR:", "manifest", "unknown">>,
      <<"ERROR:", "Not", "Found">>,
      <<"ERROR:", "MANIFEST_UNKNOWN">>,
      <<"requested", "access", "to", "the", "resource", "is", "denied">>,
      <<"ERROR:", "503", "Service", "Unavailable">>,
      <<"Service", "Unavailable">>,
      <<"ERROR:", "connection", "timeout">>,
      <<"Connection", "refused">>,
      <<"temporary", "failure">>,
      <<"ERROR:", "unauthorized">>,
      <<"503", "not", "found">>,
      <<"manifest", "unknown", "i/o", "timeout">>,
      <<>> }

\* everything one invocation of the oracle can produce
Outcomes ==
    {OK, Completed(0, <<"warning:", "503">>)}
        \cup {Completed(1, d) : d \in Diagnostics}
        \cup {Raised("TimeoutExpired"), Raised("SubprocessError")}

----------------------------------------------------------------------------
(* check_image_exists *)

REGISTRY == <<"ghcr.io", "/", "groupsky", "/", "homy">>

\* mutant: the tag separator is not required
_is_valid_ghcr_tag_any_path(tag) ==
    IF tag = <<>> THEN FALSE
    ELSE IF ~Contains(tag, REGISTRY) THEN FALSE
    ELSE IF ~Contains(tag, <<"/">>) THEN FALSE
    ELSE TRUE

_is_valid_ghcr_tag(tag) ==
    IF tag = <<>> THEN FALSE
    ELSE IF ~Contains(tag, REGISTRY) THEN FALSE
    ELSE IF ~Contains(tag, <<"/">>) \/ ~Contains(tag, <<":">>) THEN FALSE
    ELSE TRUE

\* mutant: only the status code is recognised
rate_limited_503_only(stderr) == Contains(stderr, <<"503">>)

\* line 75
rate_limited(stderr) ==
    Contains(stderr, <<"503">>) \/ Contains(Lower(stderr), <<"service", "unavailable">>)

not_found_patterns ==
    { <<"manifest", "unknown">>,
      <<"not", "found">>,
      <<"manifest_unknown">>,
      <<"requested", "access", "to", "the", "resource", "is", "denied">> }

\* line 89
not_found(stderr) ==
    \E pattern \in not_found_patterns : Contains(Lower(stderr), pattern)

transient_patterns ==
    { <<"timeout">>,
      <<"connection", "refused">>,
      <<"temporary", "failure">>,
      <<"i/o", "timeout">> }

\* line 101
transient(stderr) ==
    \E pattern \in transient_patterns : Contains(Lower(stderr), pattern)

\* mutant: the transient patterns are tried before the not-found patterns
Classify_transient_first(out) ==
    IF out.kind = "TimeoutExpired" THEN "timeout expired"
    ELSE IF out.kind = "SubprocessError" THEN "subprocess error"
    ELSE IF out.returncode = 0 THEN "exists"
    ELSE IF rate_limited(out.stderr) THEN "rate limited"
    ELSE IF transient(out.stderr) THEN "transient"
    ELSE IF not_found(out.stderr) THEN "not found"
    ELSE "unknown"

\* mutant: a failure without a known signal is retried
Classify_unknown_retried(out) ==
    IF out.kind = "TimeoutExpired" THEN "timeout expired"
    ELSE IF out.kind = "SubprocessError" THEN "subprocess error"
    ELSE IF out.returncode = 0 THEN "exists"
    ELSE IF rate_limited(out.stderr) THEN "rate limited"
    ELSE IF not_found(out.stderr) THEN "not found"
    ELSE "transient"

\* mutant: the not-found patterns are tried before the rate-limit test
Classify_not_found_first(out) ==
    IF out.kind = "TimeoutExpired" THEN "timeout expired"
    ELSE IF out.kind = "SubprocessError" THEN "subprocess error"
    ELSE IF out.returncode = 0 THEN "exists"
    ELSE IF not_found(out.stderr) THEN "not found"
    ELSE IF rate_limited(out.stderr) THEN "rate limited"
    ELSE IF transient(out.stderr) THEN "transient"
    ELSE "unknown"

\* what one pass through the try block makes of the oracle's answer
Classify(out) ==
    IF out.kind = "TimeoutExpired" THEN "timeout expired"
    ELSE IF out.kind = "SubprocessError" THEN "subprocess error"
    ELSE IF out.returncode = 0 THEN "exists"
    ELSE IF rate_limited(out.stderr) THEN "rate limited"
    ELSE IF not_found(out.stderr) THEN "not found"
    ELSE IF transient(out.stderr) THEN "transient"
    ELSE "unknown"

\* mutant: one more pass of the loop
loop_condition_inclusive(a, r) == a <= r

\* line 57
loop_condition(a, r) == a < r

\* mutant: one retry too many
may_retry_inclusive(a, r) == a <= r

\* line 104
may_retry(a, r) == a < r

\* mutant: the backoff starts at 2
sleep_time_doubled(a) == Pow(2, a)

\* line 106
sleep_time(a) == Pow(2, a - 1)

\* lines 52-56: entry, validation of the tag
Validate ==
    /\ pc = "validate"
    /\ IF image_tag = <<>> \/ ~_is_valid_ghcr_tag(image_tag)
       THEN /\ pc' = "done"
            /\ result' = "ValueError"
            /\ message' = "Invalid image tag"
            /\ UNCHANGED attempt
       ELSE /\ pc' = "loop"
            /\ attempt' = 0
            /\ UNCHANGED <<result, message>>
    /\ UNCHANGED <<libVars, registry, op, caller_pc, image_tag, retries, calls, sleeps,
                   batchVars, forkVars, idx, checked, outcomes>>

\* lines 57-121: one pass of the while loop, with its sleep
Attempt ==
    /\ pc = "loop"
    /\ loop_condition(attempt, retries)
    /\ calls' = Append(calls, registry)
    /\ registry' \in Outcomes
    /\ LET class == Classify(registry) IN
       CASE class = "exists" ->
              /\ pc' = "done" /\ result' = "True"
              /\ UNCHANGED <<attempt, message, sleeps>>
         [] class = "rate limited" ->
              /\ pc' = "done" /\ result' = "GHCRRateLimitError"
              /\ message' = "GHCR rate limit hit"
              /\ UNCHANGED <<attempt, sleeps>>
         [] class = "not found" ->
              /\ pc' = "done" /\ result' = "False"
              /\ UNCHANGED <<attempt, message, sleeps>>
         [] class = "transient" ->
              /\ attempt' = attempt + 1
              /\ IF may_retry(attempt + 1, retries)
                 THEN /\ sleeps' = Append(sleeps, sleep_time(attempt + 1))
                      /\ UNCHANGED <<pc, result, message>>
                 ELSE /\ pc' = "done" /\ result' = "GHCRError"
                      /\ message' = "Failed after retries"
                      /\ UNCHANGED sleeps
         [] class = "unknown" ->
              /\ pc' = "done" /\ result' = "GHCRError"
              /\ message' = "Unknown error"
              /\ UNCHANGED <<attempt, sleeps>>
         [] class = "timeout expired" ->
              /\ pc' = "done" /\ result' = "GHCRError"
              /\ message' = "Subprocess error: Timeout"
              /\ UNCHANGED <<attempt, sleeps>>
         [] class = "subprocess error" ->
              /\ pc' = "done" /\ result' = "GHCRError"
              /\ message' = "Subprocess error"
              /\ UNCHANGED <<attempt, sleeps>>
    /\ UNCHANGED <<libVars, op, caller_pc, image_tag, retries, batchVars, forkVars, idx,
                   checked, outcomes>>

\* lines 123-124: the loop condition fails
LoopExit ==
    /\ pc = "loop"
    /\ ~loop_condition(attempt, retries)
    /\ pc' = "done"
    /\ result' = "GHCRError"
    /\ message' = "Failed after retries"
    /\ UNCHANGED <<libVars, registry, op, caller_pc, image_tag, retries, attempt, calls,
                   sleeps, batchVars, forkVars, idx, checked, outcomes>>

\* mutant: the checks of one batch draw on one budget
Enter_shared_budget(tag, r) ==
    /\ image_tag' = tag
    /\ retries' = r - Len(checked)
    /\ attempt' = 0
    /\ pc' = "validate"
    /\ result' = "none"
    /\ message' = "none"
    /\ calls' = <<>>
    /\ sleeps' = <<>>

\* a fresh frame of check_image_exists(tag, r)
Enter(tag, r) ==
    /\ image_tag' = tag
    /\ retries' = r
    /\ attempt' = 0
    /\ pc' = "validate"
    /\ result' = "none"
    /\ message' = "none"
    /\ calls' = <<>>
    /\ sleeps' = <<>>

\* the frame is dropped when the caller has taken the result
Leave ==
    /\ image_tag' = <<>>
    /\ retries' = 0
    /\ attempt' = 0
    /\ pc' = "none"
    /\ result' = "none"
    /\ message' = "none"
    /\ calls' = <<>>
    /\ sleeps' = <<>>

\* lines 17-24, 174 and 222: except GHCRError catches GHCRError and its subclass
except_GHCRError(raised) == raised \in {"GHCRError", "GHCRRateLimitError"}

----------------------------------------------------------------------------
(* check_all_services *)

BASE_SHA == <<"abc123">>

\* index of the last ":" of a text, 0 when it has none
LastColon(text) ==
    LET at == {i \in 1..Len(text) : text[i] = ":"}
    IN  IF at = {} THEN 0 ELSE CHOOSE i \in at : \A j \in at : j <= i

_replace_tag_with_sha(image, sha) ==
    LET image_name == IF Contains(image, <<":">>)
                      THEN SubSeq(image, 1, LastColon(image) - 1)
                      ELSE image
    IN  image_name \o <<":">> \o sha

\* lines 152-153
CallCheckAllServices(list) ==
    /\ op = "idle"
    /\ op' = "check_all_services"
    /\ services' = list
    /\ to_build' = <<>>
    /\ to_retag' = <<>>
    /\ idx' = 1
    /\ caller_pc' = "loop"
    /\ UNCHANGED <<libVars, registry, checkVars, forkVars, checked, outcomes>>

\* lines 155-165: the next service, up to the call of check_image_exists
ServiceCheck ==
    /\ op = "check_all_services"
    /\ caller_pc = "loop"
    /\ idx <= Len(services)
    /\ LET image == services[idx].image
           image_with_sha == _replace_tag_with_sha(image, BASE_SHA)
       IN  /\ Enter(image_with_sha, 3)
           /\ checked' = Append(checked, image_with_sha)
    /\ caller_pc' = "checking"
    /\ UNCHANGED <<libVars, registry, op, batchVars, forkVars, idx, outcomes>>

\* mutant: the lists are built by insertion at the front
ServiceHandle_prepend ==
    /\ op = "check_all_services"
    /\ caller_pc = "checking"
    /\ pc = "done"
    /\ outcomes' = Append(outcomes, result)
    /\ IF result = "True"
       THEN /\ to_retag' = <<services[idx]>> \o to_retag
            /\ caller_pc' = "loop"
            /\ UNCHANGED to_build
       ELSE IF result = "False" \/ except_GHCRError(result)
       THEN /\ to_build' = <<services[idx]>> \o to_build
            /\ caller_pc' = "loop"
            /\ UNCHANGED to_retag
       ELSE /\ caller_pc' = result
            /\ UNCHANGED <<to_build, to_retag>>
    /\ idx' = idx + 1
    /\ Leave
    /\ UNCHANGED <<libVars, registry, op, services, forkVars, checked>>

\* lines 165-177: the check has ended
ServiceHandle ==
    /\ op = "check_all_services"
    /\ caller_pc = "checking"
    /\ pc = "done"
    /\ outcomes' = Append(outcomes, result)
    /\ IF result = "True"
       THEN /\ to_retag' = Append(to_retag, services[idx])
            /\ caller_pc' = "loop"
            /\ UNCHANGED to_build
       ELSE IF result = "False" \/ except_GHCRError(result)
       THEN /\ to_build' = Append(to_build, services[idx])
            /\ caller_pc' = "loop"
            /\ UNCHANGED to_retag
       ELSE /\ caller_pc' = result
            /\ UNCHANGED <<to_build, to_retag>>
    /\ idx' = idx + 1
    /\ Leave
    /\ UNCHANGED <<libVars, registry, op, services, forkVars, checked>>

\* line 179
ServicesReturn ==
    /\ op = "check_all_services"
    /\ caller_pc = "loop"
    /\ idx > Len(services)
    /\ caller_pc' = "returned"
    /\ UNCHANGED <<libVars, registry, op, checkVars, batchVars, forkVars, idx, checked,
                   outcomes>>

----------------------------------------------------------------------------
(* validate_fork_pr_base_images *)

ErrorHead ==
    <<"Fork PR cannot proceed: Missing required base images in GHCR.", "\n\n",
      "The following base images must be built by a", "maintainer",
      "before this fork PR can build:", "\n">>

ErrorTail ==
    <<"\n", "Please contact a repository", "maintainer",
      "to build these base images first.", "\n",
      "Maintainers can trigger base image builds from the main repository.">>

\* lines 232-233
RECURSIVE ErrorLines(_)
ErrorLines(images) ==
    IF images = <<>> THEN <<>>
    ELSE <<"  - ">> \o Head(images) \o <<"\n">> \o ErrorLines(Tail(images))

\* lines 228-238
ErrorMessage(images) == ErrorHead \o ErrorLines(images) \o ErrorTail

\* mutant: the fork test is missing
early_return_empty_only(fork, tags) == tags = <<>>

\* lines 206-212: the two early returns
early_return(fork, tags) ==
    IF ~fork THEN TRUE
    ELSE IF tags = <<>> THEN TRUE
    ELSE FALSE

\* lines 206-215
CallValidateForkPrBaseImages(fork, tags) ==
    /\ op = "idle"
    /\ op' = "validate_fork_pr_base_images"
    /\ is_fork' = fork
    /\ base_images_needed' = tags
    /\ missing_images' = <<>>
    /\ idx' = 1
    /\ caller_pc' = IF early_return(fork, tags) THEN "returned" ELSE "loop"
    /\ UNCHANGED <<libVars, registry, checkVars, batchVars, error_msg, checked, outcomes>>

\* lines 217-219: the next tag, up to the call of check_image_exists
ImageCheck ==
    /\ op = "validate_fork_pr_base_images"
    /\ caller_pc = "loop"
    /\ idx <= Len(base_images_needed)
    /\ Enter(base_images_needed[idx], 3)
    /\ checked' = Append(checked, base_images_needed[idx])
    /\ caller_pc' = "checking"
    /\ UNCHANGED <<libVars, registry, op, batchVars, forkVars, idx, outcomes>>

\* lines 219-224: the check has ended
ImageHandle ==
    /\ op = "validate_fork_pr_base_images"
    /\ caller_pc = "checking"
    /\ pc = "done"
    /\ outcomes' = Append(outcomes, result)
    /\ IF result = "True"
       THEN /\ caller_pc' = "loop"
            /\ UNCHANGED missing_images
       ELSE IF result = "False" \/ except_GHCRError(result)
       THEN /\ missing_images' = Append(missing_images, base_images_needed[idx])
            /\ caller_pc' = "loop"
       ELSE /\ caller_pc' = result
            /\ UNCHANGED missing_images
    /\ idx' = idx + 1
    /\ Leave
    /\ UNCHANGED <<libVars, registry, op, batchVars, is_fork, base_images_needed,
                   error_msg, checked>>

\* lines 226-240
ImagesDone ==
    /\ op = "validate_fork_pr_base_images"
    /\ caller_pc = "loop"
    /\ idx > Len(base_images_needed)
    /\ IF missing_images # <<>>
       THEN /\ error_msg' = ErrorMessage(missing_images)
            /\ caller_pc' = "GHCRError"
       ELSE /\ caller_pc' = "returned"
            /\ UNCHANGED error_msg
    /\ UNCHANGED <<libVars, registry, op, checkVars, batchVars, is_fork,
                   base_images_needed, missing_images, idx, checked, outcomes>>

----------------------------------------------------------------------------
(* The calls made on the client *)

NODE == REGISTRY \o <<"/", "node", ":", "18.20.8-alpine">>
MOSQUITTO == REGISTRY \o <<"/", "mosquitto", ":", "latest">>
GRAFANA == REGISTRY \o <<"/", "grafana">>

\* image tags handed to check_image_exists
Tags ==
    { NODE,
      <<>>,
      <<"invalid">>,
      <<"no-registry", "/", "image", ":", "tag">>,
      <<"ghcr.io", "/", "wrong-org", "/", "image", ":", "tag">>,
      GRAFANA }

\* service metadata handed to check_all_services
Services ==
    { [service_name |-> "broker", image |-> MOSQUITTO],
      [service_name |-> "grafana", image |-> GRAFANA],
      [service_name |-> "redis", image |-> <<"redis", ":", "7">>] }

\* base image tags handed to validate_fork_pr_base_images
BaseImages ==
    { NODE,
      REGISTRY \o <<"/", "alpine", ":", "3.22.1">>,
      <<"node", ":", "18.20.8-alpine">> }

\* the lists of at most MaxItems distinct members of S
Lists(S) ==
    {list \in UNION {[1..n -> S] : n \in 0..MaxItems} :
        \A i, j \in 1..Len(list) : i # j => list[i] # list[j]}

\* lines 27 and 56: check_image_exists(tag, retries=r)
CallCheckImageExists(tag, r) ==
    /\ op = "idle"
    /\ op' = "check_image_exists"
    /\ caller_pc' = "checking"
    /\ Enter(tag, r)
    /\ UNCHANGED <<libVars, registry, batchVars, forkVars, idx, checked, outcomes>>

Init ==
    /\ registry \in Outcomes
    /\ op = "idle"
    /\ caller_pc = "idle"
    /\ image_tag = <<>>
    /\ retries = 0
    /\ attempt = 0
    /\ pc = "none"
    /\ result = "none"
    /\ message = "none"
    /\ calls = <<>>
    /\ sleeps = <<>>
    /\ services = <<>>
    /\ to_build = <<>>
    /\ to_retag = <<>>
    /\ is_fork = FALSE
    /\ base_images_needed = <<>>
    /\ missing_images = <<>>
    /\ error_msg = <<>>
    /\ idx = 0
    /\ checked = <<>>
    /\ outcomes = <<>>
    /\ fn = "none"
    /\ args = <<>>
    /\ locals = <<>>
    /\ ret = <<>>

Next ==
    \/ \E tag \in Tags, r \in (0 - 1)..MaxRetries : CallCheckImageExists(tag, r)
    \/ Validate
    \/ Attempt
    \/ LoopExit
    \/ \E list \in Lists(Services) : CallCheckAllServices(list)
    \/ ServiceCheck
    \/ ServiceHandle
    \/ ServicesReturn
    \/ \E fork \in BOOLEAN, tags \in Lists(BaseImages) :
           CallValidateForkPrBaseImages(fork, tags)
    \/ ImageCheck
    \/ ImageHandle
    \/ ImagesDone

Spec == Init /\ [][Next]_vars

----------------------------------------------------------------------------
(* Vocabulary of the properties *)

Failure(out) == out.kind = "completed" /\ out.returncode # 0
Success(out) == out.kind = "completed" /\ out.returncode = 0

RateLimitSignal(text) ==
    \/ Contains(text, <<"503">>)
    \/ Contains(Lower(text), <<"service", "unavailable">>)

NotFoundSignal(text) ==
    \/ Contains(Lower(text), <<"manifest", "unknown">>)
    \/ Contains(Lower(text), <<"not", "found">>)
    \/ Contains(Lower(text), <<"manifest_unknown">>)
    \/ Contains(Lower(text),
                <<"requested", "access", "to", "the", "resource", "is", "denied">>)

TransientSignal(text) ==
    \/ Contains(Lower(text), <<"timeout">>)
    \/ Contains(Lower(text), <<"connection", "refused">>)
    \/ Contains(Lower(text), <<"temporary", "failure">>)

\* a failure the check is to retry: a transient signal and no other
TransientFailure(out) ==
    /\ Failure(out)
    /\ TransientSignal(out.stderr)
    /\ ~RateLimitSignal(out.stderr)
    /\ ~NotFoundSignal(out.stderr)

InvalidTag(tag) ==
    \/ tag = <<>>
    \/ ~Contains(tag, <<"ghcr.io", "/", "groupsky", "/", "homy">>)
    \/ ~Contains(tag, <<"/">>)
    \/ ~Contains(tag, <<":">>)

IsPrefix(p, q) == Len(p) <= Len(q) /\ SubSeq(q, 1, Len(p)) = p

\* 1, 2, 4, ..., 2^(n-1)
Backoff(n) == [i \in 1..n |-> Pow(2, i - 1)]

\* the oracle's answers to the running check: those given, then the one it
\* gives next
Answers == Append(calls, registry)

\* the oracle answers n transient failures and then a success
TransientThenSuccess(n) ==
    /\ Len(Answers) > n
    /\ \A i \in 1..n : TransientFailure(Answers[i])
    /\ Success(Answers[n + 1])

\* a check of a well-formed tag has ended
Ended == pc = "done" /\ ~InvalidTag(image_tag)

----------------------------------------------------------------------------
(* C1: retry bound *)

\* C1 as stated, on a positive attempt budget: for every N, when the oracle
\* answers N consecutive transient failures and then a success, the check
\* returns true after exactly N sleeps of 1, 2, 4, ..., 2^(N-1) and exactly
\* N+1 oracle invocations.
C1_AnyN ==
    \A n \in 0..(MaxRetries + 1) :
        (Ended /\ retries >= 1 /\ TransientThenSuccess(n)) =>
            /\ result = "True"
            /\ sleeps = Backoff(n)
            /\ Len(calls) = n + 1

\* C1 amended: the same for every N below the attempt budget (N < retries).
C1_BelowBudget ==
    \A n \in 0..(MaxRetries + 1) :
        (Ended /\ n < retries /\ TransientThenSuccess(n)) =>
            /\ result = "True"
            /\ sleeps = Backoff(n)
            /\ Len(calls) = n + 1

\* two transient failures, then success: sleeps 1 and 2, three invocations
C1_Witness ==
    /\ op = "check_image_exists"
    /\ Ended
    /\ retries = 3
    /\ TransientThenSuccess(2)
    /\ result = "True"
    /\ sleeps = <<1, 2>>
    /\ Len(calls) = 3

----------------------------------------------------------------------------
(* C2: rate limit *)

\* C2: a failed invocation whose diagnostic carries '503' or 'service
\* unavailable' ends the check at once with GHCRRateLimitError: it is the last
\* invocation, no sleep follows it, whatever budget remains.
C2_RateLimitImmediate ==
    \A i \in 1..Len(calls) :
        (Failure(calls[i]) /\ RateLimitSignal(calls[i].stderr)) =>
            /\ i = Len(calls)
            /\ pc = "done"
            /\ result = "GHCRRateLimitError"
            /\ Len(sleeps) = i - 1

\* rate limited on the first of three attempts
C2_Witness ==
    /\ op = "check_image_exists"
    /\ pc = "done"
    /\ retries = 3
    /\ Len(calls) = 1
    /\ calls[1] = Completed(1, <<"ERROR:", "503", "Service", "Unavailable">>)
    /\ result = "GHCRRateLimitError"
    /\ sleeps = <<>>

----------------------------------------------------------------------------
(* C3: not found *)

\* C3 as stated: a failed invocation whose diagnostic carries a not-found
\* signal makes the check return false, with no retry and no sleep after it.
C3_NotFoundFalse ==
    \A i \in 1..Len(calls) :
        (Failure(calls[i]) /\ NotFoundSignal(calls[i].stderr)) =>
            /\ i = Len(calls)
            /\ pc = "done"
            /\ result = "False"
            /\ Len(sleeps) = i - 1

\* C3 amended: a failed invocation whose diagnostic carries a not-found signal
\* and no rate-limit signal makes the check return false, with no retry and no
\* sleep after it.
C3_NotFoundNoRateLimit ==
    \A i \in 1..Len(calls) :
        (/\ Failure(calls[i])
         /\ NotFoundSignal(calls[i].stderr)
         /\ ~RateLimitSignal(calls[i].stderr)) =>
            /\ i = Len(calls)
            /\ pc = "done"
            /\ result = "False"
            /\ Len(sleeps) = i - 1

\* not found, in upper case, on the first of three attempts
C3_Witness ==
    /\ op = "check_image_exists"
    /\ pc = "done"
    /\ retries = 3
    /\ calls = <<Completed(1, <<"ERROR:", "MANIFEST_UNKNOWN">>)>>
    /\ result = "False"
    /\ sleeps = <<>>

----------------------------------------------------------------------------
(* C4: exhaustion *)

\* C4: with budget R >= 1, R consecutive transient failures make exactly R
\* invocations and R-1 sleeps of 1, 2, ..., 2^(R-2), and the check fails with
\* the generic GHCRError of exhaustion.
C4_Exhaustion ==
    (/\ pc # "none"
     /\ retries >= 1
     /\ Len(calls) >= retries
     /\ \A i \in 1..retries : TransientFailure(calls[i])) =>
        /\ pc = "done"
        /\ Len(calls) = retries
        /\ sleeps = Backoff(retries - 1)
        /\ result = "GHCRError"
        /\ message = "Failed after retries"

\* three transient failures on a budget of three
C4_Witness ==
    /\ op = "check_image_exists"
    /\ pc = "done"
    /\ retries = 3
    /\ Len(calls) = 3
    /\ \A i \in 1..3 : TransientFailure(calls[i])
    /\ sleeps = <<1, 2>>
    /\ result = "GHCRError"

----------------------------------------------------------------------------
(* C5: tag validation *)

\* C5: a tag that is empty, lacks the registry root, or lacks '/' or ':' fails
\* with ValueError before the retry loop: no oracle invocation and no sleep,
\* for every attempt budget.
C5_InvalidTag ==
    (pc # "none" /\ InvalidTag(image_tag)) =>
        /\ pc \in {"validate", "done"}
        /\ pc = "done" => result = "ValueError"
        /\ calls = <<>>
        /\ sleeps = <<>>

\* a tag without ':' rejected on a budget of three while the image exists
C5_Witness ==
    /\ op = "check_image_exists"
    /\ pc = "done"
    /\ image_tag = GRAFANA
    /\ retries = 3
    /\ registry = OK
    /\ result = "ValueError"
    /\ calls = <<>>

----------------------------------------------------------------------------
(* check_all_services and validate_fork_pr_base_images: vocabulary *)

InSeq(x, list) == \E i \in 1..Len(list) : list[i] = x

\* the first n members of list whose keep[i] holds, in the order of list
RECURSIVE Kept(_, _, _)
Kept(list, keep, n) ==
    IF n = 0 THEN <<>>
    ELSE IF keep[n] THEN Append(Kept(list, keep, n - 1), list[n])
    ELSE Kept(list, keep, n - 1)

\* list's members occur in of, in the same relative order
RECURSIVE InOrder(_, _)
InOrder(list, of) ==
    IF list = <<>> THEN TRUE
    ELSE IF of = <<>> THEN FALSE
    ELSE IF Head(list) = Head(of) THEN InOrder(Tail(list), Tail(of))
    ELSE InOrder(list, Tail(of))

TagOf(service) == _replace_tag_with_sha(service.image, BASE_SHA)

Running == caller_pc \in {"loop", "checking"}

\* the check of the i-th item ended in an error
Errored(i) == outcomes[i] \notin {"True", "False"}

----------------------------------------------------------------------------
(* C6: errors of a service's check *)

\* C6: any error raised by a service's existence check, the rate-limit error
\* included, is absorbed: the service is placed in to_build, the remaining
\* services are still checked, and the call does not fail.
C6_ErrorsAbsorbed ==
    op = "check_all_services" =>
        /\ caller_pc \in {"loop", "checking", "returned"}
        /\ \A i \in 1..Len(outcomes) :
               Errored(i) => InSeq(services[i], to_build)
        /\ ~Running => Len(checked) = Len(services)

----------------------------------------------------------------------------
(* C7: one check per service, partition, order *)

----------------------------------------------------------------------------
(* C8: the aggregate error of the fork gate *)

\* C8: with is_fork and a non-empty list every required tag is checked; if a
\* tag is missing, one GHCRError is raised after all checks, naming every
\* missing tag, no tag found present, and the word 'maintainer'; if none is
\* missing the call returns without error.
C8_AggregateError ==
    (/\ op = "validate_fork_pr_base_images"
     /\ is_fork
     /\ base_images_needed # <<>>
     /\ ~Running) =>
        /\ checked = base_images_needed
        /\ (\E i \in 1..Len(outcomes) : outcomes[i] = "False") =>
               /\ caller_pc = "GHCRError"
               /\ Contains(error_msg, <<"maintainer">>)
               /\ \A i \in 1..Len(outcomes) :
                      /\ outcomes[i] = "False" =>
                             Contains(error_msg, base_images_needed[i])
                      /\ outcomes[i] = "True" =>
                             ~Contains(error_msg, base_images_needed[i])
        /\ (\A i \in 1..Len(outcomes) : outcomes[i] = "True") =>
               caller_pc = "returned"

----------------------------------------------------------------------------
(* C9: fail-closed fork gate *)

\* C9: any error raised by a required tag's existence check is treated as the
\* tag being missing: the tag is listed in the aggregate GHCRError, and the
\* remaining tags are still checked before the error is raised.
C9_FailClosed ==
    op = "validate_fork_pr_base_images" =>
        /\ \A i \in 1..Len(outcomes) :
               Errored(i) =>
                   /\ InSeq(base_images_needed[i], missing_images)
                   /\ ~Running =>
                          /\ caller_pc = "GHCRError"
                          /\ Contains(error_msg, base_images_needed[i])
                          /\ checked = base_images_needed

----------------------------------------------------------------------------
(* C10: the fork gate off *)

\* C10: when is_fork is false or the list is empty the call returns without
\* error and makes no existence check, whatever the registry answers.
C10_NoOp ==
    (/\ op = "validate_fork_pr_base_images"
     /\ (~is_fork \/ base_images_needed = <<>>)) =>
        /\ caller_pc = "returned"
        /\ checked = <<>>
        /\ outcomes = <<>>
        /\ pc = "none"
        /\ calls = <<>>
        /\ sleeps = <<>>
        /\ error_msg = <<>>

\* not a fork, two required tags, neither in the registry
C10_Witness ==
    /\ op = "validate_fork_pr_base_images"
    /\ ~is_fork
    /\ Len(base_images_needed) = 2
    /\ registry = Completed(1, <<"ERROR:", "manifest", "unknown">>)
    /\ caller_pc = "returned"
    /\ checked = <<>>

----------------------------------------------------------------------------
(* The library functions of lib/: each is applied to arguments drawn at    *)
(* the start; `fn` names the function, `args` holds its arguments,         *)
(* `locals` its local variables while it runs and `ret` what it returned.  *)
(*                                                                         *)
(* A Dockerfile is the list DockerfileParser.structure: records with the   *)
(* instruction word and its value, the value being the list of the words   *)
(* value.split() produces.  None is the empty text.                        *)

clientVars == <<registry, op, caller_pc, checkVars, batchVars, forkVars, idx,
                checked, outcomes>>

None == <<>>

\* str.upper() on one lexeme
UpperWord(w) ==
    CASE w = "from" -> "FROM"
      [] w = "From" -> "FROM"
      [] w = "as" -> "AS"
      [] w = "As" -> "AS"
      [] w = "healthcheck" -> "HEALTHCHECK"
      [] w = "none" -> "NONE"
      [] w = "None" -> "NONE"
      [] w = "cmd" -> "CMD"
      [] OTHER -> w

\* str.upper()
Upper(text) == [i \in 1..Len(text) |-> UpperWord(text[i])]

\* one instruction of DockerfileParser.structure
Instruction(instruction, value) == [instruction |-> instruction, value |-> value]

\* dockerfile_parser.py lines 47-79: the body of the loop of parse_from_lines
parse_from_line(instruction) ==
    IF UpperWord(instruction.instruction) # "FROM" THEN <<>>
    ELSE IF instruction.value = <<>> THEN <<>>
    ELSE
        LET parts == instruction.value
            flagged == IsPrefix(<<"--platform=">>, parts[1])
            platform == IF flagged THEN Tail(parts[1]) ELSE None
            image_idx == IF flagged THEN 1 ELSE 0
        IN  IF Len(parts) <= image_idx THEN <<>>
            ELSE
                LET image == parts[image_idx + 1]
                    stage ==
                        IF /\ Len(parts) > image_idx + 1
                           /\ Upper(parts[image_idx + 2]) = <<"AS">>
                           /\ Len(parts) > image_idx + 2
                        THEN parts[image_idx + 3]
                        ELSE None
                IN  <<[image |-> image, stage |-> stage, platform |-> platform]>>

\* dockerfile_parser.py lines 38-81
RECURSIVE parse_from_lines(_)
parse_from_lines(dockerfile_content) ==
    IF dockerfile_content = <<>> THEN <<>>
    ELSE parse_from_line(Head(dockerfile_content))
             \o parse_from_lines(Tail(dockerfile_content))

----------------------------------------------------------------------------
(* lib/dependency_graph.py: build_reverse_dependency_map *)

\* a file: open() raises FileNotFoundError / IOError unless it is readable
File(content) == [readable |-> TRUE, content |-> content]
NoFile == [readable |-> FALSE, content |-> <<>>]

\* a mapping without keys
EmptyMap == [k \in {} |-> None]

\* dict.get(key, default)
Get(map, key, default) == IF key \in DOMAIN map THEN map[key] ELSE default

\* map[key] = value
Put(map, key, value) ==
    [k \in DOMAIN map \cup {key} |-> IF k = key THEN value ELSE map[k]]

\* dependency_graph.py lines 72-76: the set base_images of one service
base_images_of(from_lines) ==
    {from_lines[i].image : i \in {j \in 1..Len(from_lines) : from_lines[j].image # None}}

\* mutant: the service is appended without the membership test
add_dependent_always(reverse_deps, base_dir, service_name) ==
    Put(reverse_deps, base_dir, Append(Get(reverse_deps, base_dir, <<>>), service_name))

\* dependency_graph.py lines 81-89: one mapped base image of one service
add_dependent(reverse_deps, base_dir, service_name) ==
    LET list == Get(reverse_deps, base_dir, <<>>)
    IN  IF InSeq(service_name, list) THEN Put(reverse_deps, base_dir, list)
        ELSE Put(reverse_deps, base_dir, Append(list, service_name))

\* dependency_graph.py lines 79-89: the loop over the set base_images
RECURSIVE add_service(_, _, _, _)
add_service(reverse_deps, base_images, ghcr_to_dir, service_name) ==
    IF base_images = {} THEN reverse_deps
    ELSE
        LET base_image == CHOOSE image \in base_images : TRUE
            next == IF base_image \in DOMAIN ghcr_to_dir
                    THEN add_dependent(reverse_deps, ghcr_to_dir[base_image], service_name)
                    ELSE reverse_deps
        IN  add_service(next, base_images \ {base_image}, ghcr_to_dir, service_name)

\* mutant: the loop ends at the first file that cannot be read
RECURSIVE build_reverse_dependency_map_break(_, _, _, _)
build_reverse_dependency_map_break(reverse_deps, service_list, ghcr_to_dir, files) ==
    IF service_list = <<>> THEN reverse_deps
    ELSE
        LET service == Head(service_list)
            file == files[service.dockerfile_path]
            from_lines == parse_from_lines(file.content)
        IN  IF ~file.readable THEN reverse_deps
            ELSE build_reverse_dependency_map_break(
                     IF from_lines = <<>> THEN reverse_deps
                     ELSE add_service(reverse_deps, base_images_of(from_lines),
                                      ghcr_to_dir, service.service_name),
                     Tail(service_list), ghcr_to_dir, files)

\* dependency_graph.py lines 46-91; files[path] is the file open(path) finds
RECURSIVE build_reverse_dependency_map_from(_, _, _, _)
build_reverse_dependency_map_from(reverse_deps, service_list, ghcr_to_dir, files) ==
    IF service_list = <<>> THEN reverse_deps
    ELSE
        LET service == Head(service_list)
            file == files[service.dockerfile_path]
            from_lines == parse_from_lines(file.content)
            next ==
                IF ~file.readable THEN reverse_deps
                ELSE IF from_lines = <<>> THEN reverse_deps
                ELSE add_service(reverse_deps, base_images_of(from_lines),
                                 ghcr_to_dir, service.service_name)
        IN  build_reverse_dependency_map_from(next, Tail(service_list), ghcr_to_dir, files)

\* dependency_graph.py lines 46-49 and 91
build_reverse_dependency_map(service_list, base_image_mapping, files) ==
    build_reverse_dependency_map_from(
        EmptyMap, service_list, Get(base_image_mapping, "ghcr_to_dir", EmptyMap), files)

----------------------------------------------------------------------------
(* Arguments of build_reverse_dependency_map *)

MaxServices == 2     \* longest list of services

ALPINE == REGISTRY \o <<"/", "alpine", ":", "3.22.1">>
UPSTREAM == <<"node", ":", "18">>

From(words) == Instruction("FROM", words)
Run == Instruction("RUN", <<<<"npm">>, <<"ci">>>>)

\* Dockerfiles of services and what open() finds at their paths
Dockerfiles ==
    { <<From(<<NODE>>)>>,
      <<From(<<NODE, <<"AS">>, <<"base">>>>), Run,
        From(<<<<"base">>, <<"AS">>, <<"build">>>>),
        From(<<<<"base">>, <<"as">>, <<"RELEASE">>>>)>>,
      <<From(<<NODE, <<"AS">>, <<"build">>>>), Run, From(<<ALPINE>>)>>,
      <<From(<<UPSTREAM>>)>>,
      <<Instruction("from", <<<<"--platform=", "linux/amd64">>, ALPINE>>)>>,
      <<>> }

Files == {NoFile} \cup {File(content) : content \in Dockerfiles}

\* names of services and of base image directories are texts
AUTOMATIONS == <<"automations">>
FEATURES == <<"features">>
MQTT == <<"mqtt">>
NODE_18_ALPINE == <<"node", "-", "18-alpine">>
NODE_22_ALPINE == <<"node", "-", "22-alpine">>
NODE_DIR == <<"node">>
ALPINE_DIR == <<"alpine">>
GRAFANA_DIR == <<"grafana">>

ServiceNames == {AUTOMATIONS, FEATURES, MQTT}

DockerfilePath(name) == <<"docker", "/">> \o name \o <<"/", "Dockerfile">>

\* service metadata as services.py produces it (the keys the functions read)
Service(name) ==
    [service_name |-> name, dockerfile_path |-> DockerfilePath(name),
     build_context |-> <<"docker", "/">> \o name]

\* the lists of at most n distinct members of S
ListsUpTo(S, n) ==
    {list \in UNION {[1..k -> S] : k \in 0..n} :
        \A i, j \in 1..Len(list) : i # j => list[i] # list[j]}

Mapping(ghcr_to_dir) == [dir_to_ghcr |-> EmptyMap, ghcr_to_dir |-> ghcr_to_dir]

\* the mappings handed to build_reverse_dependency_map
Mappings ==
    { Mapping((NODE :> NODE_18_ALPINE) @@ (ALPINE :> ALPINE_DIR)),
      Mapping((NODE :> NODE_18_ALPINE) @@ (<<"base">> :> ALPINE_DIR)),
      Mapping((NODE :> NODE_DIR) @@ (ALPINE :> NODE_DIR)),
      Mapping(EmptyMap) }

ReverseMapArgs ==
    [services : ListsUpTo({Service(n) : n \in ServiceNames}, MaxServices),
     base_image_mapping : Mappings,
     files : [{DockerfilePath(n) : n \in ServiceNames} -> Files]]

\* dependency_graph.py lines 18 and 91
BuildReverseDependencyMap ==
    /\ fn = "build_reverse_dependency_map"
    /\ ret = <<>>
    /\ ret' = <<build_reverse_dependency_map(
                    args.services, args.base_image_mapping, args.files)>>
    /\ UNCHANGED <<clientVars, fn, args, locals>>

----------------------------------------------------------------------------
(* lib/dependency_graph.py: detect_affected_services *)

MaxChanged == 2      \* longest list of changed directories / changed paths

\* the names of the model in the order Python's sorted() gives them
SortOrder ==
    <<ALPINE_DIR, AUTOMATIONS, FEATURES, GRAFANA_DIR, MQTT, NODE_DIR,
      NODE_18_ALPINE, NODE_22_ALPINE>>

Rank(name) == CHOOSE i \in 1..Len(SortOrder) : SortOrder[i] = name

\* mutant: descending order
RECURSIVE sorted_reverse(_)
sorted_reverse(S) ==
    IF S = {} THEN <<>>
    ELSE LET last == CHOOSE x \in S : \A y \in S : Rank(y) <= Rank(x)
         IN  <<last>> \o sorted_reverse(S \ {last})

\* sorted(list(S)) of a set of names
RECURSIVE sorted(_)
sorted(S) ==
    IF S = {} THEN <<>>
    ELSE LET first == CHOOSE x \in S : \A y \in S : Rank(x) <= Rank(y)
         IN  <<first>> \o sorted(S \ {first})

\* the set of the members of a list
Range(list) == {list[i] : i \in 1..Len(list)}

\* dependency_graph.py lines 118-127: the set affected_services
RECURSIVE affected_set(_, _)
affected_set(changed_base_dirs, reverse_deps) ==
    IF changed_base_dirs = <<>> THEN {}
    ELSE LET dependent_services == Get(reverse_deps, Head(changed_base_dirs), <<>>)
         IN  Range(dependent_services)
                 \cup affected_set(Tail(changed_base_dirs), reverse_deps)

\* dependency_graph.py lines 118-129
detect_affected_services(changed_base_dirs, reverse_deps) ==
    sorted(affected_set(changed_base_dirs, reverse_deps))

\* the sequences of at most n members of S
SeqsUpTo(S, n) == UNION {[1..k -> S] : k \in 0..n}

BaseDirs == {NODE_18_ALPINE, ALPINE_DIR, GRAFANA_DIR}

\* reverse dependency maps: lists of dependents for some directories
ReverseMaps ==
    LET lists == ListsUpTo(ServiceNames, MaxServices) \ {<<>>}
    IN  {EmptyMap}
            \cup {(NODE_18_ALPINE :> l) : l \in lists}
            \cup {(ALPINE_DIR :> l) : l \in lists}
            \cup {(NODE_18_ALPINE :> l) @@ (ALPINE_DIR :> k) : l, k \in lists}

AffectedArgs ==
    [changed_base_dirs : SeqsUpTo(BaseDirs, MaxChanged), reverse_deps : ReverseMaps]

\* dependency_graph.py lines 94 and 129
DetectAffectedServices ==
    /\ fn = "detect_affected_services"
    /\ ret = <<>>
    /\ ret' = <<detect_affected_services(args.changed_base_dirs, args.reverse_deps)>>
    /\ UNCHANGED <<clientVars, fn, args, locals>>

----------------------------------------------------------------------------
(* lib/change_detection.py: detect_changed_base_images, detect_changed_services *)
(* Paths are texts in which every '/' is a lexeme of its own.              *)

MaxEntries == 2      \* longest list of entries (base images or services)

\* mutant: the separator is not appended to the directory
starts_with_directory_no_separator(file_path, directory) ==
    IsPrefix(directory, file_path)

\* change_detection.py lines 53 and 93: file_path.startswith(directory + '/')
starts_with_directory(file_path, directory) ==
    IsPrefix(directory \o <<"/">>, file_path)

\* change_detection.py lines 43-46 and 83-86: the lines of git's output
split_lines(lines) == IF lines = <<<<>>>> THEN <<>> ELSE lines

\* change_detection.py lines 48-55 and 88-95: the set of changed names
changed_names(changed_files, entries) ==
    {entries[i].name : i \in {k \in 1..Len(entries) :
        \E j \in 1..Len(changed_files) :
            starts_with_directory(changed_files[j], entries[k].directory)}}

\* change_detection.py lines 43-57; lines is what git diff --name-only printed
detect_changed_base_images(lines, base_images) ==
    sorted(changed_names(split_lines(lines), base_images))

\* change_detection.py lines 83-97
detect_changed_services(lines, service_list) ==
    sorted(changed_names(split_lines(lines), service_list))

BASE_IMAGES_DIR == <<"base-images">>

\* entries of the two functions: a name and a directory
Entry(name, directory) == [name |-> name, directory |-> directory]

Entries ==
    { Entry(NODE_DIR, BASE_IMAGES_DIR \o <<"/">> \o NODE_DIR),
      Entry(NODE_18_ALPINE, BASE_IMAGES_DIR \o <<"/">> \o NODE_18_ALPINE),
      Entry(ALPINE_DIR, BASE_IMAGES_DIR \o <<"/">> \o ALPINE_DIR) }

\* paths git reports: files of the directories, a directory string itself,
\* a file outside, the empty line of an empty diff
ChangedPaths ==
    { BASE_IMAGES_DIR \o <<"/", "node", "/", "Dockerfile">>,
      BASE_IMAGES_DIR \o <<"/", "node", "/", "scripts", "/", "build.sh">>,
      BASE_IMAGES_DIR \o <<"/", "node">>,
      BASE_IMAGES_DIR \o <<"/">> \o NODE_18_ALPINE \o <<"/", "Dockerfile">>,
      BASE_IMAGES_DIR \o <<"/", "alpine", "/", "Dockerfile">>,
      <<"README.md">>,
      <<>> }

\* the lists of at most n members of S with distinct names
EntryLists(S, n) ==
    {list \in SeqsUpTo(S, n) :
        \A i, j \in 1..Len(list) : i # j => list[i].name # list[j].name}

ChangedArgs ==
    [lines : SeqsUpTo(ChangedPaths, MaxChanged),
     entries : EntryLists(Entries, MaxEntries)]

\* change_detection.py lines 20 and 57
DetectChangedBaseImages ==
    /\ fn = "detect_changed_base_images"
    /\ ret = <<>>
    /\ ret' = <<detect_changed_base_images(args.lines, args.entries)>>
    /\ UNCHANGED <<clientVars, fn, args, locals>>

\* change_detection.py lines 60 and 97
DetectChangedServices ==
    /\ fn = "detect_changed_services"
    /\ ret = <<>>
    /\ ret' = <<detect_changed_services(args.lines, args.entries)>>
    /\ UNCHANGED <<clientVars, fn, args, locals>>

----------------------------------------------------------------------------
(* lib/version_normalizer.py: normalize_version *)
(* A version is a text whose lexemes are the platform words, single        *)
(* digits, '.' and '-'.                                                    *)

MaxParts == 3        \* most pieces a version string is put together from

Digits == {"0", "1", "2", "3", "4", "5", "6", "7", "8", "9"}

\* mutant: \d in place of \d+
one_digit(text, i) ==
    IF i <= Len(text) /\ text[i] \in Digits THEN 1 ELSE 0

\* \d+ at position i: the length of the longest run of digits (0: no match)
RECURSIVE digits(_, _)
digits(text, i) ==
    IF i <= Len(text) /\ text[i] \in Digits THEN 1 + digits(text, i + 1) ELSE 0

ALPINE_RE == "alpine3\\.\\d+"
DEBIAN_RE == "debian\\d+"
UBUNTU_RE == "ubuntu\\d+\\.\\d+"

\* re.match at the head of text: the length of the match (0: no match)
match(pattern, text) ==
    CASE pattern = ALPINE_RE ->
             IF /\ Len(text) >= 4
                /\ text[1] = "alpine" /\ text[2] = "3" /\ text[3] = "."
                /\ digits(text, 4) > 0
             THEN 3 + digits(text, 4) ELSE 0
      [] pattern = DEBIAN_RE ->
             IF Len(text) >= 2 /\ text[1] = "debian" /\ digits(text, 2) > 0
             THEN 1 + digits(text, 2) ELSE 0
      [] pattern = UBUNTU_RE ->
             IF Len(text) >= 4 /\ text[1] = "ubuntu" /\ digits(text, 2) > 0
             THEN LET n == digits(text, 2)
                  IN  IF /\ Len(text) >= n + 3
                         /\ text[n + 2] = "."
                         /\ digits(text, n + 3) > 0
                      THEN n + 2 + digits(text, n + 3) ELSE 0
             ELSE 0

\* re.sub(pattern, repl, text): every match, left to right, replaced
RECURSIVE re_sub(_, _, _)
re_sub(pattern, repl, text) ==
    IF text = <<>> THEN <<>>
    ELSE LET n == match(pattern, text)
         IN  IF n > 0
             THEN repl \o re_sub(pattern, repl, SubSeq(text, n + 1, Len(text)))
             ELSE <<Head(text)>> \o re_sub(pattern, repl, Tail(text))

\* version_normalizer.py lines 48-68, for a string
normalize_version(version) ==
    IF version = <<>> THEN version
    ELSE re_sub(UBUNTU_RE, <<"ubuntu">>,
             re_sub(DEBIAN_RE, <<"debian">>,
                 re_sub(ALPINE_RE, <<"alpine">>, version)))

\* pieces of version strings: every lexeme, and the platform markers
VersionParts ==
    { <<"alpine">>, <<"debian">>, <<"ubuntu">>, <<"3">>, <<"1">>, <<".">>, <<"-">>,
      <<"alpine", "3", ".">>, <<"alpine", "3", ".", "2", "1">>,
      <<"debian", "1", "2">>,
      <<"ubuntu", "2", ".">>, <<"ubuntu", "2", "2", ".", "0", "4">> }

RECURSIVE Concat(_)
Concat(parts) == IF parts = <<>> THEN <<>> ELSE Head(parts) \o Concat(Tail(parts))

Versions == {Concat(parts) : parts \in SeqsUpTo(VersionParts, MaxParts)}

\* version_normalizer.py lines 15 and 68
NormalizeVersion ==
    /\ fn = "normalize_version"
    /\ ret = <<>>
    /\ ret' = <<normalize_version(args.version)>>
    /\ UNCHANGED <<clientVars, fn, args, locals>>

----------------------------------------------------------------------------
(* lib/base_images.py: normalize_ghcr_tag, build_directory_to_ghcr_mapping *)

\* base_images.py lines 141-157
normalize_ghcr_tag(directory_name, raw_version) ==
    LET version == IF raw_version = None THEN <<"latest">> ELSE raw_version
        normalized_version == normalize_version(version)
        image_name == IF IsPrefix(<<"node", "-">>, directory_name)
                      THEN <<"node">>
                      ELSE directory_name
    IN  REGISTRY \o <<"/">> \o image_name \o <<":">> \o normalized_version

\* mutant: a tag keeps the first directory it was given
add_pair_keep_first(mapping, directory, ghcr_tag) ==
    [dir_to_ghcr |-> Put(mapping.dir_to_ghcr, directory, ghcr_tag),
     ghcr_to_dir |-> IF ghcr_tag \in DOMAIN mapping.ghcr_to_dir
                     THEN mapping.ghcr_to_dir
                     ELSE Put(mapping.ghcr_to_dir, ghcr_tag, directory)]

\* base_images.py lines 199-200
add_pair(mapping, directory, ghcr_tag) ==
    [dir_to_ghcr |-> Put(mapping.dir_to_ghcr, directory, ghcr_tag),
     ghcr_to_dir |-> Put(mapping.ghcr_to_dir, ghcr_tag, directory)]

\* base_images.py lines 191-200: the loop over the discovered base images
RECURSIVE build_mapping_from(_, _)
build_mapping_from(mapping, discovered) ==
    IF discovered = <<>> THEN mapping
    ELSE LET img == Head(discovered)
             ghcr_tag == normalize_ghcr_tag(img.directory, img.raw_version)
         IN  build_mapping_from(add_pair(mapping, img.directory, ghcr_tag),
                                Tail(discovered))

\* base_images.py lines 185-205; discovered is what discover_base_images found
build_directory_to_ghcr_mapping(discovered) ==
    build_mapping_from([dir_to_ghcr |-> EmptyMap, ghcr_to_dir |-> EmptyMap], discovered)

\* raw versions of upstream images (None: the FROM line has no tag)
V18_ALPINE321 == <<"1", "8", "-", "alpine", "3", ".", "2", "1">>
V18_ALPINE319 == <<"1", "8", "-", "alpine", "3", ".", "1", "9">>
V22_ALPINE321 == <<"2", "2", "-", "alpine", "3", ".", "2", "1">>
V9 == <<"9", ".", "5">>

RawVersions == {V18_ALPINE321, V18_ALPINE319, V22_ALPINE321, V9, <<"latest">>, None}

\* base images as discover_base_images reports them (the keys that are read)
BaseImage(directory, raw_version) ==
    [directory |-> directory, raw_version |-> raw_version]

\* the lists of at most n base images in distinct directories
Catalogs(dirs, n) ==
    {list \in SeqsUpTo({BaseImage(d, v) : d \in dirs, v \in RawVersions}, n) :
        \A i, j \in 1..Len(list) : i # j => list[i].directory # list[j].directory}

CatalogDirs == {NODE_18_ALPINE, NODE_22_ALPINE, NODE_DIR, GRAFANA_DIR}

\* base_images.py lines 160 and 202-205
BuildDirectoryToGhcrMapping ==
    /\ fn = "build_directory_to_ghcr_mapping"
    /\ ret = <<>>
    /\ ret' = <<build_directory_to_ghcr_mapping(args.discovered)>>
    /\ UNCHANGED <<clientVars, fn, args, locals>>

----------------------------------------------------------------------------
(* detect_changes.py: main, steps 1 to 6 *)
(* args holds what main reads from its collaborators: the base images      *)
(* discover_base_images finds under --base-images-dir, the services of the *)
(* compose file, the build files and the paths git diff prints.            *)

\* detect_changes.py lines 129-139 (step 1)
MainStep1 ==
    /\ fn = "main"
    /\ locals.pc = "step1"
    /\ locals' = [locals EXCEPT
                     !.pc = "step3",
                     !.base_image_mapping = build_directory_to_ghcr_mapping(args.discovered)]
    /\ UNCHANGED <<clientVars, fn, args, ret>>

\* detect_changes.py lines 149-152: base_images_for_detection
base_images_for_detection(base_images) ==
    [i \in 1..Len(base_images) |->
        [directory |-> base_images[i].directory, name |-> base_images[i].directory]]

\* detect_changes.py lines 159-162: services_for_detection
services_for_detection(service_list) ==
    [i \in 1..Len(service_list) |->
        [directory |-> service_list[i].build_context,
         name |-> service_list[i].service_name]]

\* detect_changes.py lines 146-154 (step 3)
MainStep3 ==
    /\ fn = "main"
    /\ locals.pc = "step3"
    /\ locals' = [locals EXCEPT
                     !.pc = "step4",
                     !.changed_base_dirs =
                         detect_changed_base_images(
                             args.lines, base_images_for_detection(args.discovered))]
    /\ UNCHANGED <<clientVars, fn, args, ret>>

\* detect_changes.py lines 156-164 (step 4)
MainStep4 ==
    /\ fn = "main"
    /\ locals.pc = "step4"
    /\ locals' = [locals EXCEPT
                     !.pc = "step5",
                     !.changed_services =
                         detect_changed_services(
                             args.lines, services_for_detection(args.services))]
    /\ UNCHANGED <<clientVars, fn, args, ret>>

\* detect_changes.py lines 166-169 (step 5)
MainStep5 ==
    /\ fn = "main"
    /\ locals.pc = "step5"
    /\ locals' = [locals EXCEPT
                     !.pc = "step6",
                     !.reverse_deps =
                         build_reverse_dependency_map(
                             args.services, locals.base_image_mapping, args.files)]
    /\ UNCHANGED <<clientVars, fn, args, ret>>

\* detect_changes.py lines 171-174 (step 6)
MainStep6 ==
    /\ fn = "main"
    /\ locals.pc = "step6"
    /\ locals' = [locals EXCEPT
                     !.pc = "step7",
                     !.affected_services =
                         detect_affected_services(locals.changed_base_dirs, locals.reverse_deps)]
    /\ UNCHANGED <<clientVars, fn, args, ret>>

\* the locals of main before step 1
MainLocals ==
    [pc |-> "step1",
     base_image_mapping |-> [dir_to_ghcr |-> EmptyMap, ghcr_to_dir |-> EmptyMap],
     changed_base_dirs |-> <<>>,
     changed_services |-> <<>>,
     reverse_deps |-> EmptyMap,
     affected_services |-> <<>>,
     base_images_needed |-> <<>>,
     services_to_build |-> <<>>,
     services_to_retag |-> <<>>,
     output_file |-> <<>>,
     trace |-> <<>>]

\* the repository main runs in
MainCatalogs ==
    {list \in SeqsUpTo({BaseImage(NODE_18_ALPINE, V18_ALPINE321),
                        BaseImage(GRAFANA_DIR, V9)}, MaxEntries) :
        \A i, j \in 1..Len(list) : i # j => list[i].directory # list[j].directory}

MainDockerfiles ==
    { <<From(<<normalize_ghcr_tag(NODE_18_ALPINE, V18_ALPINE321)>>)>>,
      <<From(<<normalize_ghcr_tag(GRAFANA_DIR, V9)>>)>>,
      <<From(<<UPSTREAM>>)>> }

MainPaths ==
    { BASE_IMAGES_DIR \o <<"/">> \o NODE_18_ALPINE \o <<"/", "Dockerfile">>,
      NODE_18_ALPINE \o <<"/", "Dockerfile">>,
      <<"docker", "/">> \o AUTOMATIONS \o <<"/", "index.js">> }

MainArgs ==
    [discovered : MainCatalogs,
     services : ListsUpTo({Service(AUTOMATIONS), Service(MQTT)}, MaxServices),
     files : [{DockerfilePath(AUTOMATIONS), DockerfilePath(MQTT)}
                  -> {File(content) : content \in MainDockerfiles}],
     lines : SeqsUpTo(MainPaths, MaxChanged)]

----------------------------------------------------------------------------
(* lib/dockerfile_parser.py: extract_final_stage_base *)

MaxStages == 3       \* most FROM lines of a Dockerfile

\* dockerfile_parser.py lines 106-109: the map of stage names to images
RECURSIVE stage_map_from(_, _)
stage_map_from(stage_map, from_lines) ==
    IF from_lines = <<>> THEN stage_map
    ELSE LET from_line == Head(from_lines)
         IN  stage_map_from(
                 IF from_line.stage # None
                 THEN Put(stage_map, from_line.stage, from_line.image)
                 ELSE stage_map,
                 Tail(from_lines))

\* mutant: the final image is returned as it stands
follow_condition_never(current, stage_map, visited) == FALSE

\* mutant: the visited set is not consulted
follow_condition_unguarded(current, stage_map, visited) ==
    current \in DOMAIN stage_map

\* dockerfile_parser.py line 118: the condition of the while loop
follow_condition(current, stage_map, visited) ==
    current \in DOMAIN stage_map /\ current \notin visited

\* the locals of extract_final_stage_base before its first line
FinalStageLocals ==
    [pc |-> "start", stage_map |-> EmptyMap, visited |-> {}, current |-> None,
     substitutions |-> 0]

\* dockerfile_parser.py lines 100-116
FinalStageStart ==
    /\ fn = "extract_final_stage_base"
    /\ locals.pc = "start"
    /\ LET from_lines == parse_from_lines(args.dockerfile_content)
       IN  IF from_lines = <<>>
           THEN /\ ret' = <<None>>
                /\ locals' = [locals EXCEPT !.pc = "returned"]
           ELSE /\ locals' = [locals EXCEPT
                                 !.pc = "while",
                                 !.stage_map = stage_map_from(EmptyMap, from_lines),
                                 !.current = from_lines[Len(from_lines)].image]
                /\ UNCHANGED ret
    /\ UNCHANGED <<clientVars, fn, args>>

\* dockerfile_parser.py lines 118-120: one turn of the while loop;
\* substitutions counts the turns
FinalStageFollow ==
    /\ fn = "extract_final_stage_base"
    /\ locals.pc = "while"
    /\ follow_condition(locals.current, locals.stage_map, locals.visited)
    /\ locals' = [locals EXCEPT
                     !.visited = locals.visited \cup {locals.current},
                     !.current = locals.stage_map[locals.current],
                     !.substitutions = locals.substitutions + 1]
    /\ UNCHANGED <<clientVars, fn, args, ret>>

\* dockerfile_parser.py lines 118 and 122: the loop ends, current is returned
FinalStageReturn ==
    /\ fn = "extract_final_stage_base"
    /\ locals.pc = "while"
    /\ ~follow_condition(locals.current, locals.stage_map, locals.visited)
    /\ ret' = <<locals.current>>
    /\ locals' = [locals EXCEPT !.pc = "returned"]
    /\ UNCHANGED <<clientVars, fn, args>>

\* stage references: an image or an alias, with or without a stage name
StageWords == {<<"a">>, <<"b">>, UPSTREAM}

FromInstructions ==
    {From(<<image>>) : image \in StageWords}
        \cup {From(<<image, <<"AS">>, stage>>) :
                 image \in StageWords, stage \in {<<"a">>, <<"b">>}}

\* Dockerfiles of at most MaxStages instructions: stage references and RUN
StageFiles == SeqsUpTo(FromInstructions \cup {Run}, MaxStages)

----------------------------------------------------------------------------
(* lib/dockerfile_parser.py: has_healthcheck *)

MaxInstructions == 4 \* most instructions of a Dockerfile

\* the positions of the FROM instructions
from_positions(structure) ==
    {i \in 1..Len(structure) : UpperWord(structure[i].instruction) = "FROM"}

\* mutant: the first FROM instruction
first_from_idx(structure) ==
    IF from_positions(structure) = {} THEN 0
    ELSE CHOOSE i \in from_positions(structure) :
             \A j \in from_positions(structure) : i <= j

\* dockerfile_parser.py lines 145-148: the position of the last FROM
\* instruction (0: there is none)
last_from_idx(structure) ==
    IF from_positions(structure) = {} THEN 0
    ELSE CHOOSE i \in from_positions(structure) :
             \A j \in from_positions(structure) : j <= i

\* dockerfile_parser.py lines 157-159: value.strip().upper() == 'NONE'
is_none(value) == Len(value) = 1 /\ Upper(value[1]) = <<"NONE">>

\* dockerfile_parser.py lines 138-163
has_healthcheck(dockerfile_content) ==
    IF dockerfile_content = <<>> THEN FALSE
    ELSE
        LET structure == dockerfile_content
            last == last_from_idx(structure)
            found == {i \in (last + 1)..Len(structure) :
                         UpperWord(structure[i].instruction) = "HEALTHCHECK"}
        IN  IF last = 0 THEN FALSE
            ELSE IF found = {} THEN FALSE
            ELSE LET i == CHOOSE k \in found : \A j \in found : k <= j
                 IN  ~is_none(structure[i].value)

Healthcheck(instruction, value) == Instruction(instruction, value)

HealthInstructions ==
    { From(<<NODE>>),
      Run,
      Healthcheck("HEALTHCHECK", <<<<"CMD">>, <<"echo">>>>),
      Healthcheck("healthcheck", <<<<"none">>>>),
      Healthcheck("HEALTHCHECK", <<>>),
      Healthcheck("HEALTHCHECK",
                  <<<<"--interval=", "30s">>, <<"cmd">>, <<"echo">>,
                    <<"'", "is">>, <<"ok", "'">>>>) }

\* Dockerfiles of at most MaxInstructions instructions
HealthFiles == SeqsUpTo(HealthInstructions, MaxInstructions)

\* dockerfile_parser.py lines 125 and 138-163
HasHealthcheck ==
    /\ fn = "has_healthcheck"
    /\ ret = <<>>
    /\ ret' = <<has_healthcheck(args.dockerfile_content)>>
    /\ UNCHANGED <<clientVars, fn, args, locals>>

----------------------------------------------------------------------------
(* lib/dockerfile_parser.py: parse_healthcheck_params *)

\* an Optional value is None: None has no keys, a dict of results has five
IsNone(value) == DOMAIN value = {}

\* dockerfile_parser.py lines 191-195: the position of the last FROM
\* instruction (0: there is none)
params_last_from_idx(structure) ==
    IF from_positions(structure) = {} THEN 0
    ELSE CHOOSE i \in from_positions(structure) :
             \A j \in from_positions(structure) : j <= i

\* mutant: only the upper-case spelling disables the health check
params_is_none_exact(value) == value = <<<<"NONE">>>>

\* dockerfile_parser.py lines 205-208: value.strip().upper() == 'NONE'
params_is_none(value) == Len(value) = 1 /\ Upper(value[1]) = <<"NONE">>

\* the number of quote characters of a word
quotes(word) == Cardinality({i \in 1..Len(word) : word[i] \in {"\"", "'"}})

\* dockerfile_parser.py lines 219-235: the value is cut at the spaces
\* outside quotes; words are the pieces of the value between its spaces
RECURSIVE split_outside_quotes(_, _, _, _)
split_outside_quotes(words, parts, current, in_quotes) ==
    IF words = <<>>
    THEN IF current # <<>> THEN Append(parts, current) ELSE parts
    ELSE
        LET word == Head(words)
            toggled == IF quotes(word) % 2 = 1 THEN ~in_quotes ELSE in_quotes
        IN  IF in_quotes
            THEN split_outside_quotes(Tail(words), parts,
                                      current \o <<" ">> \o word, toggled)
            ELSE split_outside_quotes(
                     Tail(words),
                     IF current # <<>> THEN Append(parts, current) ELSE parts,
                     word, toggled)

\* ' '.join(list)
RECURSIVE join_spaces(_)
join_spaces(list) ==
    IF list = <<>> THEN <<>>
    ELSE IF Len(list) = 1 THEN Head(list)
    ELSE Head(list) \o <<" ">> \o join_spaces(Tail(list))

\* dockerfile_parser.py lines 237-261: the flags and the command;
\* part.split('=', 1)[1] is what follows the flag's '='
RECURSIVE read_params(_, _, _)
read_params(parts, params, cmd_parts) ==
    IF parts = <<>>
    THEN IF cmd_parts # <<>> THEN [params EXCEPT !.cmd = join_spaces(cmd_parts)]
         ELSE params
    ELSE
        LET part == Head(parts)
        IN  IF IsPrefix(<<"--interval=">>, part)
            THEN read_params(Tail(parts), [params EXCEPT !.interval = Tail(part)], cmd_parts)
            ELSE IF IsPrefix(<<"--timeout=">>, part)
            THEN read_params(Tail(parts), [params EXCEPT !.timeout = Tail(part)], cmd_parts)
            ELSE IF IsPrefix(<<"--start-period=">>, part)
            THEN read_params(Tail(parts), [params EXCEPT !.start_period = Tail(part)], cmd_parts)
            ELSE IF IsPrefix(<<"--retries=">>, part)
            THEN read_params(Tail(parts), [params EXCEPT !.retries = Tail(part)], cmd_parts)
            ELSE IF Upper(part) = <<"CMD">>
            THEN read_params(<<>>, params, Tail(parts))
            ELSE read_params(Tail(parts), params, Append(cmd_parts, part))

\* dockerfile_parser.py lines 211-217
NoParams ==
    [interval |-> None, timeout |-> None, start_period |-> None, retries |-> None,
     cmd |-> None]

\* dockerfile_parser.py lines 166-261
parse_healthcheck_params(dockerfile_content) ==
    IF dockerfile_content = <<>> THEN None
    ELSE
        LET structure == dockerfile_content
            last == params_last_from_idx(structure)
            found == {i \in (last + 1)..Len(structure) :
                         UpperWord(structure[i].instruction) = "HEALTHCHECK"}
        IN  IF last = 0 THEN None
            ELSE IF found = {} THEN None
            ELSE LET i == CHOOSE k \in found : \A j \in found : k <= j
                     value == structure[i].value
                 IN  IF params_is_none(value) THEN None
                     ELSE read_params(split_outside_quotes(value, <<>>, <<>>, FALSE),
                                      NoParams, <<>>)

\* dockerfile_parser.py lines 166 and 181-261
ParseHealthcheckParams ==
    /\ fn = "parse_healthcheck_params"
    /\ ret = <<>>
    /\ ret' = <<parse_healthcheck_params(args.dockerfile_content)>>
    /\ UNCHANGED <<clientVars, fn, args, locals>>

----------------------------------------------------------------------------
(* lib/output.py: validate_outputs *)

\* output.py lines 13-24
REQUIRED_OUTPUT_KEYS ==
    <<"base_images", "changed_base_images", "base_images_needed",
      "changed_services", "affected_services", "to_build", "to_retag",
      "testable_services", "healthcheck_services", "version_check_services">>

\* mutant: the last required key is not looked for
missing_keys_but_last(outputs) ==
    SelectSeq(SubSeq(REQUIRED_OUTPUT_KEYS, 1, Len(REQUIRED_OUTPUT_KEYS) - 1),
              LAMBDA key : key \notin DOMAIN outputs)

\* output.py line 107
missing_keys(outputs) ==
    SelectSeq(REQUIRED_OUTPUT_KEYS, LAMBDA key : key \notin DOMAIN outputs)

\* ', '.join(list)
RECURSIVE join(_)
join(list) ==
    IF list = <<>> THEN <<>>
    ELSE IF Len(list) = 1 THEN list
    ELSE <<Head(list), ", ">> \o join(Tail(list))

\* output.py lines 107-110: the error raised, its message and the mapping
\* as the call leaves it
validate_outputs(outputs) ==
    IF missing_keys(outputs) # <<>>
    THEN [raised |-> "ValueError",
          message |-> <<"Missing required output keys: ">> \o join(missing_keys(outputs)),
          outputs |-> outputs]
    ELSE [raised |-> "none", message |-> <<>>, outputs |-> outputs]

\* output mappings: some of the required keys and, or not, a key beyond them
OutputMappings ==
    {[key \in keys |-> "[]"] :
        keys \in SUBSET (Range(REQUIRED_OUTPUT_KEYS) \cup {"extra_key"})}

\* output.py lines 90 and 107-110
ValidateOutputs ==
    /\ fn = "validate_outputs"
    /\ ret = <<>>
    /\ ret' = <<validate_outputs(args.outputs)>>
    /\ UNCHANGED <<clientVars, fn, args, locals>>

----------------------------------------------------------------------------
(* lib/services.py: discover_services_from_compose *)

\* the values of a compose file's 'build' key, by their Python type
NoBuild == [type |-> "NoneType"]
BuildStr(value) == [type |-> "str", value |-> value]
BuildDict(items) == [type |-> "dict", items |-> items]
BuildList(value) == [type |-> "list", value |-> value]

\* services.py line 100: not build
not_build(build) ==
    \/ build.type = "NoneType"
    \/ build.type = "str" /\ build.value = <<>>
    \/ build.type = "dict" /\ DOMAIN build.items = {}
    \/ build.type = "list" /\ build.value = <<>>

\* str.strip(): the blanks at both ends are dropped
RECURSIVE strip(_)
strip(text) ==
    IF text = <<>> THEN text
    ELSE IF Head(text) = " " THEN strip(Tail(text))
    ELSE IF text[Len(text)] = " " THEN strip(SubSeq(text, 1, Len(text) - 1))
    ELSE text

\* services.py line 123: str(Path(build_context) / dockerfile)
path_join(build_context, dockerfile) ==
    LET context == IF build_context # <<>> /\ build_context[Len(build_context)] = "/"
                       /\ Len(build_context) > 1
                   THEN SubSeq(build_context, 1, Len(build_context) - 1)
                   ELSE build_context
    IN  IF dockerfile # <<>> /\ Head(dockerfile) = "/" THEN dockerfile
        ELSE IF context = <<>> THEN dockerfile
        ELSE IF context = <<"/">> THEN context \o dockerfile
        ELSE context \o <<"/">> \o dockerfile

\* services.py lines 126-135: the metadata of one service
metadata_of(service_name, image, build_context, dockerfile, build_args) ==
    LET metadata == [service_name |-> service_name,
                     image |-> image,
                     build_context |-> build_context,
                     dockerfile_path |-> path_join(build_context, dockerfile)]
    IN  IF DOMAIN build_args # {}
        THEN Put(metadata, "build_args", build_args)
        ELSE metadata

\* services.py lines 76-137: None (no element) or the metadata (one element)
extract_service_metadata(service_name, service_config) ==
    LET image == Get(service_config, "image", None)
        build == Get(service_config, "build", NoBuild)
    IN  IF not_build(build) THEN <<>>
        ELSE IF build.type = "str"
        THEN <<metadata_of(service_name, image, strip(build.value),
                           <<"Dockerfile">>, None)>>
        ELSE IF build.type = "dict"
        THEN LET build_context == Get(build.items, "context", None)
             IN  IF build_context = <<>> THEN <<>>
                 ELSE <<metadata_of(
                            service_name, image, strip(build_context),
                            strip(Get(build.items, "dockerfile", <<"Dockerfile">>)),
                            Get(build.items, "args", None))>>
        ELSE <<>>

\* mutant: the prefix without its last separator
ghcr_prefix_no_separator == REGISTRY

\* services.py line 153
ghcr_prefix == REGISTRY \o <<"/">>

\* services.py lines 155-158
filter_ghcr_services(service_list) ==
    SelectSeq(service_list,
              LAMBDA service : /\ Get(service, "image", None) # <<>>
                               /\ IsPrefix(ghcr_prefix, service.image))

\* services.py lines 65-70: the loop over the items of the services section
RECURSIVE extract_all(_)
extract_all(services_config) ==
    IF services_config = <<>> THEN <<>>
    ELSE extract_service_metadata(Head(services_config)[1], Head(services_config)[2])
             \o extract_all(Tail(services_config))

\* services.py lines 42-73; completed is what subprocess.run returned:
\* its return code and, parsed, its output
discover_services_from_compose(completed) ==
    IF completed.returncode # 0
    THEN [raised |-> "RuntimeError", services |-> <<>>]
    ELSE IF ~completed.stdout.json
    THEN [raised |-> "JSONDecodeError", services |-> <<>>]
    ELSE [raised |-> "none",
          services |-> filter_ghcr_services(extract_all(completed.stdout.services))]

----------------------------------------------------------------------------
(* Compose configurations *)

MQTT_INFLUX_IMAGE == REGISTRY \o <<"/", "mqtt-influx", ":", "latest">>
MQTT_INFLUX_DIR == <<"docker", "/", "mqtt-influx">>

\* the configurations of one service
ServiceConfigs ==
    { ("image" :> MQTT_INFLUX_IMAGE)
          @@ ("build" :> BuildDict("context" :> MQTT_INFLUX_DIR)),
      ("image" :> MQTT_INFLUX_IMAGE) @@ ("build" :> BuildStr(MQTT_INFLUX_DIR)),
      ("image" :> MOSQUITTO)
          @@ ("build" :> BuildDict(("context" :> <<" ", "docker", "/", "mosquitto", "/">>)
                                       @@ ("dockerfile" :> <<"Dockerfile.prod">>)
                                       @@ ("args" :> ("NODE_ENV" :> <<"production">>)))),
      "build" :> BuildStr(MQTT_INFLUX_DIR),
      ("image" :> <<"postgres", ":", "15">>)
          @@ ("build" :> BuildDict("context" :> MQTT_INFLUX_DIR)),
      ("image" :> <<"ghcr.io", "/", "groupsky", "/", "homy", "-extra", "/", "x", ":", "1">>)
          @@ ("build" :> BuildStr(MQTT_INFLUX_DIR)),
      "image" :> MQTT_INFLUX_IMAGE,
      ("image" :> MQTT_INFLUX_IMAGE)
          @@ ("build" :> BuildDict("dockerfile" :> <<"Dockerfile">>)),
      ("image" :> MQTT_INFLUX_IMAGE) @@ ("build" :> BuildDict("context" :> <<>>)),
      ("image" :> MQTT_INFLUX_IMAGE) @@ ("build" :> BuildList(<<MQTT_INFLUX_DIR>>)) }

\* the services section: names with their configurations, names distinct
ServicesSections ==
    {section \in SeqsUpTo(ServiceNames \X ServiceConfigs, MaxServices) :
        \A i, j \in 1..Len(section) : i # j => section[i][1] # section[j][1]}

\* what subprocess.run returns for 'docker compose config'
ComposeRuns ==
    {[returncode |-> 1, stdout |-> [json |-> FALSE, services |-> <<>>]],
     [returncode |-> 0, stdout |-> [json |-> FALSE, services |-> <<>>]]}
        \cup {[returncode |-> 0, stdout |-> [json |-> TRUE, services |-> section]] :
                 section \in ServicesSections}

\* services.py lines 14 and 41-73
DiscoverServicesFromCompose ==
    /\ fn = "discover_services_from_compose"
    /\ ret = <<>>
    /\ ret' = <<discover_services_from_compose(args.completed)>>
    /\ UNCHANGED <<clientVars, fn, args, locals>>

----------------------------------------------------------------------------
(* detect_changes.py: main, steps 7 to 13 *)
(* main calls the client: locals.pc waits at "step7_validate" and          *)
(* "step8_check" while validate_fork_pr_base_images and check_all_services *)
(* run. locals.trace lists the calls of main that act on the registry, the *)
(* output file or the exit status, in the order they are made.             *)

\* detect_changes.py lines 180-184: base_images_needed
RECURSIVE needed_images(_, _)
needed_images(changed_base_dirs, dir_to_ghcr) ==
    IF changed_base_dirs = <<>> THEN <<>>
    ELSE (IF Head(changed_base_dirs) \in DOMAIN dir_to_ghcr
          THEN <<dir_to_ghcr[Head(changed_base_dirs)]>>
          ELSE <<>>)
             \o needed_images(Tail(changed_base_dirs), dir_to_ghcr)

\* mutant: the gate is open to every run
fork_gate_open(fork, changed_base_dirs) == FALSE

\* detect_changes.py line 178: the condition of the fork gate
fork_gate(fork, changed_base_dirs) == fork /\ changed_base_dirs # <<>>

\* detect_changes.py lines 176-188 (step 7, up to the call)
MainStep7 ==
    /\ fn = "main"
    /\ locals.pc = "step7"
    /\ op = "idle"
    /\ IF fork_gate(args.is_fork, locals.changed_base_dirs)
       THEN LET needed == needed_images(locals.changed_base_dirs,
                                        locals.base_image_mapping.dir_to_ghcr)
            IN  /\ locals' = [locals EXCEPT
                                 !.pc = "step7_validate",
                                 !.base_images_needed = needed,
                                 !.trace = Append(@, "validate_fork_pr_base_images")]
                /\ op' = "validate_fork_pr_base_images"
                /\ is_fork' = args.is_fork
                /\ base_images_needed' = needed
                /\ missing_images' = <<>>
                /\ idx' = 1
                /\ caller_pc' = IF early_return(args.is_fork, needed)
                                THEN "returned" ELSE "loop"
                /\ UNCHANGED <<registry, checkVars, batchVars, error_msg, checked,
                               outcomes>>
       ELSE /\ locals' = [locals EXCEPT !.pc = "step8"]
            /\ UNCHANGED clientVars
    /\ UNCHANGED <<fn, args, ret>>

\* the frame of a function of the client is dropped on its return
ClientReturns ==
    /\ op' = "idle"
    /\ caller_pc' = "idle"
    /\ idx' = 0
    /\ is_fork' = FALSE
    /\ base_images_needed' = <<>>
    /\ missing_images' = <<>>
    /\ checked' = <<>>
    /\ outcomes' = <<>>
    /\ UNCHANGED <<registry, checkVars, batchVars, error_msg>>

\* detect_changes.py lines 187-192 and 283-285: the validation has returned
\* or raised; GHCRError leads to sys.exit(1) at line 192, any other
\* exception to sys.exit(1) at line 285
MainStep7Return ==
    /\ fn = "main"
    /\ locals.pc = "step7_validate"
    /\ op = "validate_fork_pr_base_images"
    /\ caller_pc \notin {"loop", "checking"}
    /\ IF caller_pc = "returned"
       THEN /\ locals' = [locals EXCEPT !.pc = "step8"]
            /\ ClientReturns
            /\ UNCHANGED ret
       ELSE /\ locals' = [locals EXCEPT !.pc = "exit", !.trace = Append(@, "sys.exit")]
            /\ ret' = <<1>>
            /\ UNCHANGED clientVars
    /\ UNCHANGED <<fn, args>>

\* detect_changes.py line 197: all_services_to_check
all_services_to_check(changed_services, affected_services) ==
    sorted(Range(changed_services \o affected_services))

\* mutant: every discovered service is checked
services_to_check_all(service_list, names) == service_list

\* detect_changes.py line 198: services_to_check
services_to_check(service_list, names) ==
    SelectSeq(service_list, LAMBDA s : InSeq(s.service_name, names))

\* detect_changes.py lines 214-215: [s['service_name'] for s in ...]
RECURSIVE service_names(_)
service_names(list) ==
    IF list = <<>> THEN <<>>
    ELSE <<Head(list).service_name>> \o service_names(Tail(list))

\* detect_changes.py lines 194-208 (step 8, up to the call)
MainStep8 ==
    /\ fn = "main"
    /\ locals.pc = "step8"
    /\ op = "idle"
    /\ LET names == all_services_to_check(locals.changed_services,
                                          locals.affected_services)
           list == services_to_check(args.services, names)
       IN  IF list # <<>>
           THEN /\ locals' = [locals EXCEPT
                                 !.pc = "step8_check",
                                 !.trace = Append(@, "check_all_services")]
                /\ op' = "check_all_services"
                /\ services' = list
                /\ to_build' = <<>>
                /\ to_retag' = <<>>
                /\ idx' = 1
                /\ caller_pc' = "loop"
                /\ UNCHANGED <<registry, checkVars, forkVars, checked, outcomes>>
           ELSE /\ locals' = [locals EXCEPT !.pc = "step9"]
                /\ UNCHANGED clientVars
    /\ UNCHANGED <<fn, args, ret>>

\* detect_changes.py lines 209-222 and 283-285: check_all_services has
\* returned or raised
MainStep8Return ==
    /\ fn = "main"
    /\ locals.pc = "step8_check"
    /\ op = "check_all_services"
    /\ caller_pc \notin {"loop", "checking"}
    /\ IF caller_pc = "returned"
       THEN /\ locals' = [locals EXCEPT
                             !.pc = "step9",
                             !.services_to_build = service_names(to_build),
                             !.services_to_retag = service_names(to_retag)]
            /\ UNCHANGED ret
       ELSE IF except_GHCRError(caller_pc)
       THEN /\ locals' = [locals EXCEPT
                             !.pc = "step9",
                             !.services_to_build =
                                 all_services_to_check(locals.changed_services,
                                                       locals.affected_services),
                             !.services_to_retag = <<>>]
            /\ UNCHANGED ret
       ELSE /\ locals' = [locals EXCEPT !.pc = "exit", !.trace = Append(@, "sys.exit")]
            /\ ret' = <<1>>
    /\ UNCHANGED <<clientVars, fn, args>>

\* detect_changes.py lines 260-271: the entries of detection_result that
\* steps 1 to 8 have set (steps 9 to 11 read package.json, .nvmrc and the
\* build files and set the other three)
detection_result(discovered, main_locals) ==
    [base_images |-> [i \in 1..Len(discovered) |-> discovered[i].directory],
     changed_base_images |-> main_locals.changed_base_dirs,
     base_images_needed |-> main_locals.base_images_needed,
     changed_services |-> main_locals.changed_services,
     affected_services |-> main_locals.affected_services,
     to_build |-> main_locals.services_to_build,
     to_retag |-> main_locals.services_to_retag]

\* detect_changes.py lines 224-281 (steps 9 to 13): the output file is
\* written and main returns
MainStep13 ==
    /\ fn = "main"
    /\ locals.pc = "step9"
    /\ locals' = [locals EXCEPT
                     !.pc = "returned",
                     !.output_file = <<detection_result(args.discovered, locals)>>,
                     !.trace = Append(@, "write_github_output")]
    /\ ret' = <<0>>
    /\ UNCHANGED <<clientVars, fn, args>>

----------------------------------------------------------------------------
(* The repository of a run of main *)

\* a service as services.py discovers it
DiscoveredService(name) ==
    metadata_of(name, REGISTRY \o <<"/">> \o name \o <<":", "latest">>,
                <<"docker", "/">> \o name, <<"Dockerfile">>, None)

NODE_BASE == BaseImage(NODE_18_ALPINE, V18_ALPINE321)
GRAFANA_BASE == BaseImage(GRAFANA_DIR, V9)

\* automations is built on the node base image, the others on an upstream
\* image
RunFiles ==
    (DockerfilePath(AUTOMATIONS)
         :> File(<<From(<<normalize_ghcr_tag(NODE_18_ALPINE, V18_ALPINE321)>>)>>))
        @@ (DockerfilePath(FEATURES) :> File(<<From(<<UPSTREAM>>)>>))
        @@ (DockerfilePath(MQTT) :> File(<<From(<<UPSTREAM>>)>>))

\* what git diff prints: nothing, a file of a base image, a file of a
\* service, both, files of the two base images
RunLines ==
    LET base == NODE_18_ALPINE \o <<"/", "Dockerfile">>
        other == GRAFANA_DIR \o <<"/", "Dockerfile">>
        service == <<"docker", "/">> \o FEATURES \o <<"/", "index.js">>
    IN  {<<>>, <<base>>, <<service>>, <<base, service>>, <<base, other>>}

RunArgs ==
    [discovered : {<<NODE_BASE, GRAFANA_BASE>>},
     services : {<<DiscoveredService(AUTOMATIONS), DiscoveredService(FEATURES),
                   DiscoveredService(MQTT)>>},
     files : {RunFiles},
     lines : RunLines,
     is_fork : BOOLEAN]

----------------------------------------------------------------------------
(* The library: calls *)

\* the client is not in use
ClientIdle ==
    /\ registry = OK
    /\ op = "idle"
    /\ caller_pc = "idle"
    /\ image_tag = <<>>
    /\ retries = 0
    /\ attempt = 0
    /\ pc = "none"
    /\ result = "none"
    /\ message = "none"
    /\ calls = <<>>
    /\ sleeps = <<>>
    /\ services = <<>>
    /\ to_build = <<>>
    /\ to_retag = <<>>
    /\ is_fork = FALSE
    /\ base_images_needed = <<>>
    /\ missing_images = <<>>
    /\ error_msg = <<>>
    /\ idx = 0
    /\ checked = <<>>
    /\ outcomes = <<>>

LibInit ==
    /\ ClientIdle
    /\ ret = <<>>
    /\ \/ fn = "build_reverse_dependency_map" /\ args \in ReverseMapArgs
       \/ fn = "detect_affected_services" /\ args \in AffectedArgs
       \/ fn = "detect_changed_base_images" /\ args \in ChangedArgs
       \/ fn = "detect_changed_services" /\ args \in ChangedArgs
       \/ fn = "normalize_version" /\ args \in [version : Versions]
       \/ fn = "build_directory_to_ghcr_mapping"
              /\ args \in [discovered : Catalogs(CatalogDirs, MaxEntries)]
       \/ fn = "has_healthcheck" /\ args \in [dockerfile_content : HealthFiles]
       \/ fn = "parse_healthcheck_params"
              /\ args \in [dockerfile_content : HealthFiles]
       \/ fn = "validate_outputs" /\ args \in [outputs : OutputMappings]
       \/ fn = "discover_services_from_compose" /\ args \in [completed : ComposeRuns]
       \/ fn = "main" /\ args \in MainArgs
    /\ locals = IF fn = "main" THEN MainLocals ELSE <<>>

LibNext ==
    \/ BuildReverseDependencyMap
    \/ DetectAffectedServices
    \/ DetectChangedBaseImages
    \/ DetectChangedServices
    \/ NormalizeVersion
    \/ BuildDirectoryToGhcrMapping
    \/ HasHealthcheck
    \/ ParseHealthcheckParams
    \/ ValidateOutputs
    \/ DiscoverServicesFromCompose
    \/ MainStep1
    \/ MainStep3
    \/ MainStep4
    \/ MainStep5
    \/ MainStep6

LibSpec == LibInit /\ [][LibNext]_vars

\* extract_final_stage_base applied to a Dockerfile
FinalStageInit ==
    /\ ClientIdle
    /\ fn = "extract_final_stage_base"
    /\ args \in [dockerfile_content : StageFiles]
    /\ locals = FinalStageLocals
    /\ ret = <<>>

FinalStageNext ==
    \/ FinalStageStart
    \/ FinalStageFollow
    \/ FinalStageReturn

\* the function runs on until it has returned
FinalStageSpec == FinalStageInit /\ [][FinalStageNext]_vars /\ WF_vars(FinalStageNext)

\* a run of main with the client it calls
MainInit ==
    /\ registry \in Outcomes
    /\ op = "idle"
    /\ caller_pc = "idle"
    /\ image_tag = <<>>
    /\ retries = 0
    /\ attempt = 0
    /\ pc = "none"
    /\ result = "none"
    /\ message = "none"
    /\ calls = <<>>
    /\ sleeps = <<>>
    /\ services = <<>>
    /\ to_build = <<>>
    /\ to_retag = <<>>
    /\ is_fork = FALSE
    /\ base_images_needed = <<>>
    /\ missing_images = <<>>
    /\ error_msg = <<>>
    /\ idx = 0
    /\ checked = <<>>
    /\ outcomes = <<>>
    /\ fn = "main"
    /\ args \in RunArgs
    /\ locals = MainLocals
    /\ ret = <<>>

MainNext ==
    \/ MainStep1
    \/ MainStep3
    \/ MainStep4
    \/ MainStep5
    \/ MainStep6
    \/ MainStep7
    \/ ImageCheck
    \/ ImageHandle
    \/ ImagesDone
    \/ MainStep7Return
    \/ MainStep8
    \/ ServiceCheck
    \/ ServiceHandle
    \/ ServicesReturn
    \/ MainStep8Return
    \/ MainStep13
    \/ Validate
    \/ Attempt

MainSpec == MainInit /\ [][MainNext]_vars

\* the function f has returned
Returned(f) == fn = f /\ Len(ret) = 1

----------------------------------------------------------------------------
(* C11: the reverse dependency map *)

\* no member of list occurs twice
NoDuplicates(list) == \A i, j \in 1..Len(list) : i # j => list[i] # list[j]

\* the names of a list of entries
RECURSIVE Names(_)
Names(list) == IF list = <<>> THEN <<>> ELSE <<Head(list).service_name>> \o Names(Tail(list))

\* the build file of service is readable and one of its FROM references
\* has an image that ghcr_to_dir maps to d
DependsOn(service, d, ghcr_to_dir, files) ==
    LET file == files[service.dockerfile_path]
        from_lines == parse_from_lines(file.content)
    IN  /\ file.readable
        /\ \E i \in 1..Len(from_lines) :
              /\ from_lines[i].image \in DOMAIN ghcr_to_dir
              /\ ghcr_to_dir[from_lines[i].image] = d

Directories == {NODE_18_ALPINE, ALPINE_DIR, NODE_DIR, GRAFANA_DIR}

\* C11: a service is listed under a directory iff its readable build file
\* has a FROM image that ghcr_to_dir maps to that directory; every list is
\* non-empty, duplicate-free and in the order of the input list.
C11_ReverseMap ==
    Returned("build_reverse_dependency_map") =>
        LET reverse_deps == ret[1]
            ghcr_to_dir == args.base_image_mapping.ghcr_to_dir
        IN  /\ DOMAIN reverse_deps \subseteq Directories
            /\ \A d \in Directories :
                  \A i \in 1..Len(args.services) :
                      (/\ d \in DOMAIN reverse_deps
                       /\ InSeq(args.services[i].service_name, reverse_deps[d]))
                      <=> DependsOn(args.services[i], d, ghcr_to_dir, args.files)
            /\ \A d \in DOMAIN reverse_deps :
                  /\ reverse_deps[d] # <<>>
                  /\ NoDuplicates(reverse_deps[d])
                  /\ InOrder(reverse_deps[d], Names(args.services))

\* a service whose build file names two mapped base images is listed under
\* both directories, after a service listed before it; the stage alias of
\* the other service's file is under no directory
C11_Witness ==
    /\ Returned("build_reverse_dependency_map")
    /\ Len(args.services) = 2
    /\ args.services[1].service_name = MQTT
    /\ args.services[2].service_name = AUTOMATIONS
    /\ args.files[DockerfilePath(AUTOMATIONS)].content
           = <<From(<<NODE, <<"AS">>, <<"build">>>>), Run, From(<<ALPINE>>)>>
    /\ Len(args.files[DockerfilePath(MQTT)].content) = 4
    /\ args.files[DockerfilePath(MQTT)].readable
    /\ args.base_image_mapping.ghcr_to_dir[NODE] = NODE_18_ALPINE
    /\ ALPINE \in DOMAIN args.base_image_mapping.ghcr_to_dir
    /\ ret[1] = (NODE_18_ALPINE :> <<MQTT, AUTOMATIONS>>)
                    @@ (ALPINE_DIR :> <<AUTOMATIONS>>)

----------------------------------------------------------------------------
(* C12: the services affected by changed base images *)

\* list is in ascending sort order without repetition
Sorted(list) == \A i, j \in 1..Len(list) : i < j => Rank(list[i]) < Rank(list[j])

\* C12: the result is the sorted, duplicate-free union of reverse_deps[d]
\* over the changed directories d that are keys of the map.
C12_AffectedUnion ==
    Returned("detect_affected_services") =>
        LET changed == Range(args.changed_base_dirs) \cap DOMAIN args.reverse_deps
        IN  /\ Range(ret[1]) = UNION {Range(args.reverse_deps[d]) : d \in changed}
            /\ Sorted(ret[1])
            /\ (changed = {} => ret[1] = <<>>)

\* two changed directories, one absent from the map; the other directory of
\* the map is unchanged and its only dependent is not returned
C12_Witness ==
    /\ Returned("detect_affected_services")
    /\ args.changed_base_dirs = <<GRAFANA_DIR, NODE_18_ALPINE>>
    /\ args.reverse_deps = (NODE_18_ALPINE :> <<MQTT, AUTOMATIONS>>)
                               @@ (ALPINE_DIR :> <<FEATURES>>)
    /\ ret[1] = <<AUTOMATIONS, MQTT>>

----------------------------------------------------------------------------
(* C13: the entries changed by a list of paths *)

\* text is directory, a '/' and whatever follows
Under(text, directory) ==
    /\ Len(text) > Len(directory)
    /\ SubSeq(text, 1, Len(directory)) = directory
    /\ text[Len(directory) + 1] = "/"

\* C13: an entry's name is returned iff some changed path starts with the
\* entry's directory followed by '/'; the result is sorted, duplicate-free,
\* and empty when there is no path or no entry.
C13_ChangedByPrefix ==
    (Returned("detect_changed_base_images") \/ Returned("detect_changed_services")) =>
        /\ \A i \in 1..Len(args.entries) :
              InSeq(args.entries[i].name, ret[1])
              <=> \E j \in 1..Len(args.lines) :
                      Under(args.lines[j], args.entries[i].directory)
        /\ Range(ret[1]) \subseteq {args.entries[i].name : i \in 1..Len(args.entries)}
        /\ Sorted(ret[1])
        /\ (args.lines = <<>> \/ args.entries = <<>> => ret[1] = <<>>)

\* the directory string itself and a file of a longer sibling name are
\* changed: the entry is not returned, the sibling's entry is
C13_Witness ==
    /\ Returned("detect_changed_base_images")
    /\ args.entries = <<Entry(NODE_18_ALPINE, BASE_IMAGES_DIR \o <<"/">> \o NODE_18_ALPINE),
                        Entry(NODE_DIR, BASE_IMAGES_DIR \o <<"/">> \o NODE_DIR)>>
    /\ args.lines = <<BASE_IMAGES_DIR \o <<"/">> \o NODE_DIR,
                      BASE_IMAGES_DIR \o <<"/">> \o NODE_18_ALPINE \o <<"/", "Dockerfile">>>>
    /\ ret[1] = <<NODE_18_ALPINE>>

----------------------------------------------------------------------------
(* C16: normalize_version applied twice *)

----------------------------------------------------------------------------
(* C15: the two directions of the mapping *)

\* the pairs <<key, value>> of a map
Pairs(map) == {<<k, map[k]>> : k \in DOMAIN map}

\* a is the set of the pairs of b, turned round
Inverse(a, b) == a = {<<p[2], p[1]>> : p \in b}

TagOfImage(img) == normalize_ghcr_tag(img.directory, img.raw_version)

\* no two base images of the catalog have the same tag
Injective(discovered) ==
    \A i, j \in 1..Len(discovered) :
        i # j => TagOfImage(discovered[i]) # TagOfImage(discovered[j])

\* C15 as stated: for every catalog the two maps are exact inverses.
C15_Inverse ==
    Returned("build_directory_to_ghcr_mapping") =>
        Inverse(Pairs(ret[1].ghcr_to_dir), Pairs(ret[1].dir_to_ghcr))

\* C15, amended: dir_to_ghcr holds the tag of every directory of the
\* catalog and nothing else; ghcr_to_dir maps every such tag to the last
\* directory of the catalog that has it; the maps are exact inverses iff no
\* two directories of the catalog have the same tag, and both are empty for
\* the empty catalog.
C15_InverseIffInjective ==
    Returned("build_directory_to_ghcr_mapping") =>
        LET discovered == args.discovered
            n == Len(discovered)
        IN  /\ Pairs(ret[1].dir_to_ghcr)
                   = {<<discovered[i].directory, TagOfImage(discovered[i])>> : i \in 1..n}
            /\ Pairs(ret[1].ghcr_to_dir)
                   = {<<TagOfImage(discovered[i]), discovered[i].directory>> :
                         i \in {k \in 1..n : \A j \in (k + 1)..n :
                                   TagOfImage(discovered[j]) # TagOfImage(discovered[k])}}
            /\ Inverse(Pairs(ret[1].ghcr_to_dir), Pairs(ret[1].dir_to_ghcr))
                   <=> Injective(discovered)
            /\ (n = 0 => ret[1].dir_to_ghcr = EmptyMap /\ ret[1].ghcr_to_dir = EmptyMap)

\* two node variants with different versions: two tags, each mapped back
C15_Witness ==
    /\ Returned("build_directory_to_ghcr_mapping")
    /\ args.discovered = <<BaseImage(NODE_18_ALPINE, V18_ALPINE321),
                           BaseImage(NODE_22_ALPINE, V22_ALPINE321)>>
    /\ ret[1].ghcr_to_dir[REGISTRY \o <<"/", "node", ":", "1", "8", "-", "alpine">>]
           = NODE_18_ALPINE
    /\ ret[1].ghcr_to_dir[REGISTRY \o <<"/", "node", ":", "2", "2", "-", "alpine">>]
           = NODE_22_ALPINE
    /\ Inverse(Pairs(ret[1].ghcr_to_dir), Pairs(ret[1].dir_to_ghcr))

----------------------------------------------------------------------------
(* C14: from a changed path to the affected services *)

\* main is past step 6
AfterStep6 == fn = "main" /\ locals.pc = "step7"

\* the directory of a discovered base image in the repository
RepositoryDir(img) == BASE_IMAGES_DIR \o <<"/">> \o img.directory

\* C14: a changed path under a discovered base image's directory in the
\* repository puts that base image in changed_base_images and every
\* service the reverse dependency map lists under it in affected_services.
C14_Propagation ==
    AfterStep6 =>
        \A i \in 1..Len(args.discovered) :
            (\E j \in 1..Len(args.lines) :
                 Under(args.lines[j], RepositoryDir(args.discovered[i])))
            => /\ InSeq(args.discovered[i].directory, locals.changed_base_dirs)
               /\ Range(Get(locals.reverse_deps, args.discovered[i].directory, <<>>))
                      \subseteq Range(locals.affected_services)

----------------------------------------------------------------------------
(* C17: the alias-following loop ends *)

\* the aliases of the Dockerfile: the stage names of its FROM lines
Aliases(dockerfile_content) ==
    LET from_lines == parse_from_lines(dockerfile_content)
    IN  {from_lines[i].stage : i \in {k \in 1..Len(from_lines) : from_lines[k].stage # None}}

\* the loop has substituted every alias at most once
OncePerAlias ==
    fn = "extract_final_stage_base" =>
        /\ locals.substitutions = Cardinality(locals.visited)
        /\ locals.visited \subseteq Aliases(args.dockerfile_content)

\* C17: every call of extract_final_stage_base returns, after at most one
\* substitution per distinct alias, also when aliases refer to themselves
\* or to each other in a cycle.
C17_Terminates ==
    /\ []OncePerAlias
    /\ (fn = "extract_final_stage_base") ~> Returned("extract_final_stage_base")

\* two aliases that name each other: the call has returned after following
\* each of them once
C17_Witness ==
    /\ Returned("extract_final_stage_base")
    /\ args.dockerfile_content
           = <<From(<<<<"b">>, <<"AS">>, <<"a">>>>), From(<<<<"a">>, <<"AS">>, <<"b">>>>)>>
    /\ locals.visited = {<<"a">>, <<"b">>}
    /\ locals.substitutions = 2

----------------------------------------------------------------------------
(* C18: health checks of non-final stages *)

IsFrom(instruction) == UpperWord(instruction.instruction) = "FROM"
IsHealthcheck(instruction) == UpperWord(instruction.instruction) = "HEALTHCHECK"

\* the instructions from the last FROM on (the whole file if it has none)
RECURSIVE FinalStage(_)
FinalStage(structure) ==
    IF \E i \in 2..Len(structure) : IsFrom(structure[i])
    THEN FinalStage(Tail(structure))
    ELSE structure

\* C18: a Dockerfile whose HEALTHCHECK instructions all precede its last
\* FROM has no health check, and the answer is that of the final stage
\* alone.
C18_FinalStageOnly ==
    Returned("has_healthcheck") =>
        LET structure == args.dockerfile_content
        IN  /\ (\A i \in 1..Len(structure) :
                   IsHealthcheck(structure[i])
                   => \E j \in (i + 1)..Len(structure) : IsFrom(structure[j]))
               => ret[1] = FALSE
            /\ ret[1] = has_healthcheck(FinalStage(structure))

\* a health check in the first stage only
C18_Witness ==
    /\ Returned("has_healthcheck")
    /\ args.dockerfile_content
           = <<From(<<NODE>>), Healthcheck("HEALTHCHECK", <<<<"CMD">>, <<"echo">>>>),
               From(<<NODE>>), Run>>
    /\ ret[1] = FALSE

----------------------------------------------------------------------------
(* C19: required output keys *)

\* C19: validate_outputs raises ValueError iff a required key is absent;
\* the message names the absent keys and no other; keys beyond the ten are
\* accepted and the mapping is as it was.
C19_RequiredKeys ==
    Returned("validate_outputs") =>
        LET absent == Range(REQUIRED_OUTPUT_KEYS) \ DOMAIN args.outputs
        IN  /\ ret[1].raised = "ValueError" <=> absent # {}
            /\ ret[1].raised \in {"ValueError", "none"}
            /\ ret[1].raised = "ValueError" =>
                   Range(ret[1].message) \cap Range(REQUIRED_OUTPUT_KEYS) = absent
            /\ ret[1].outputs = args.outputs

\* two required keys are absent and a key beyond the ten is present
C19_Witness ==
    /\ Returned("validate_outputs")
    /\ DOMAIN args.outputs
           = (Range(REQUIRED_OUTPUT_KEYS) \ {"to_build", "version_check_services"})
                 \cup {"extra_key"}
    /\ ret[1].raised = "ValueError"
    /\ ret[1].message = <<"Missing required output keys: ",
                          "to_build", ", ", "version_check_services">>

----------------------------------------------------------------------------
(* C20: the work and the end of one check *)

\* the check runs under weak fairness of the steps of the client
FairSpec == Spec /\ WF_vars(Next)

Max(a, b) == IF a >= b THEN a ELSE b

\* a check is in progress or has ended
InCheck == pc \in {"validate", "loop", "done"}

\* the ends of a check: true, false, rate-limit error, generic error,
\* input-validation error
Ends == {"True", "False", "GHCRRateLimitError", "GHCRError", "ValueError"}

EndedInOne == pc = "done" /\ result \in Ends

\* at most retries oracle invocations and retries - 1 sleeps
LiteralBounds ==
    InCheck => Len(calls) <= retries /\ Len(sleeps) <= retries - 1

\* the same, a budget below 1 counting as no invocation and no sleep
BudgetBounds ==
    InCheck => /\ Len(calls) <= Max(retries, 0)
               /\ Len(sleeps) <= Max(retries - 1, 0)
               /\ (pc \in {"validate", "loop"} => result = "none")

----------------------------------------------------------------------------
(* C21: failures that are not retried *)

\* a failure whose diagnostic has none of the known signals
UnknownFailure(out) ==
    /\ Failure(out)
    /\ ~RateLimitSignal(out.stderr)
    /\ ~NotFoundSignal(out.stderr)
    /\ ~TransientSignal(out.stderr)

\* the invocation itself failed: it timed out or could not be carried out
InvocationFailure(out) == out.kind \in {"TimeoutExpired", "SubprocessError"}

----------------------------------------------------------------------------
(* C27: a diagnostic with several signals *)

\* C27: the answer to a failed invocation is decided by the first of
\* rate limit, not found, transient, unknown that its diagnostic matches:
\* a rate-limit signal raises GHCRRateLimitError whatever else is there; a
\* not-found signal without it returns false without a sleep; a transient
\* signal alone is retried or exhausts the budget; no signal is GHCRError.
C27_Priority ==
    \A i \in 1..Len(calls) :
        Failure(calls[i]) =>
            LET stderr == calls[i].stderr
                last == i = Len(calls) /\ pc = "done" /\ Len(sleeps) = i - 1
            IN  IF RateLimitSignal(stderr)
                THEN last /\ result = "GHCRRateLimitError"
                ELSE IF NotFoundSignal(stderr)
                THEN last /\ result = "False"
                ELSE IF TransientSignal(stderr)
                THEN \/ i < Len(calls)
                     \/ pc = "loop" /\ Len(sleeps) = i
                     \/ i = retries /\ last /\ result = "GHCRError"
                ELSE last /\ result = "GHCRError"

\* a diagnostic with a not-found phrase and 'timeout', budget 3: false
\* after one invocation and no sleep
C27_Witness ==
    /\ op = "check_image_exists"
    /\ retries = 3
    /\ calls = <<Completed(1, <<"manifest", "unknown", "i/o", "timeout">>)>>
    /\ sleeps = <<>>
    /\ pc = "done"
    /\ result = "False"

\* a diagnostic with '503' and a not-found phrase: the rate-limit error
C27_WitnessRateLimit ==
    /\ op = "check_image_exists"
    /\ calls = <<Completed(1, <<"503", "not", "found">>)>>
    /\ pc = "done"
    /\ result = "GHCRRateLimitError"

----------------------------------------------------------------------------
(* C30: a budget of 0 or less *)

\* C30: a check of a valid tag with a budget of 0 or less invokes the
\* oracle never, sleeps never and ends with the generic GHCRError; no check
\* returns true or false without an invocation of the oracle.
C30_ZeroBudget ==
    /\ (pc \in {"loop", "done"} /\ retries <= 0 /\ ~InvalidTag(image_tag)) =>
           /\ calls = <<>>
           /\ sleeps = <<>>
           /\ (pc = "done" => result = "GHCRError")
    /\ (pc = "done" /\ result \in {"True", "False"}) => Len(calls) >= 1

\* budget 0, a valid tag, the oracle would answer that the image exists
C30_Witness ==
    /\ op = "check_image_exists"
    /\ retries = 0
    /\ image_tag = NODE
    /\ registry = OK
    /\ pc = "done"
    /\ result = "GHCRError"
    /\ calls = <<>>

----------------------------------------------------------------------------
(* C23: retries are local to one check of a batch *)

Batch == op \in {"check_all_services", "validate_fork_pr_base_images"}

\* the check of the item at the head of the batch is under way
CheckUnderWay == caller_pc = "checking"

\* between two checks nothing is left of the last one, and a check under way
\* is the check of the last item started, with the budget of 3
C23_OneCheckAtATime ==
    Batch =>
        /\ Len(checked) - Len(outcomes) = (IF CheckUnderWay THEN 1 ELSE 0)
        /\ CheckUnderWay =>
               /\ retries = 3
               /\ Len(checked) = idx
               /\ image_tag = checked[idx]
               /\ Len(calls) <= 3
               /\ Len(sleeps) <= 2
        /\ ~CheckUnderWay => pc = "none" /\ calls = <<>> /\ sleeps = <<>>
        /\ sleeps # <<>> => sleeps[1] = 1

\* a check is started only when the one before it has ended, and starts
\* with no attempt made, no invocation and no sleep
C23_FreshStart ==
    (Batch /\ checked' # checked) =>
        /\ pc = "none"
        /\ Len(outcomes) = Len(checked)
        /\ Len(checked') = Len(checked) + 1
        /\ attempt' = 0
        /\ retries' = 3
        /\ calls' = <<>>
        /\ sleeps' = <<>>

\* an invocation or a sleep belongs to the check of the last item started,
\* and every check before it has ended
C23_StepOfCurrent ==
    (Batch /\ (Len(calls') > Len(calls) \/ Len(sleeps') > Len(sleeps))) =>
        /\ image_tag = checked[Len(checked)]
        /\ Len(outcomes) = Len(checked) - 1
        /\ checked' = checked
        /\ outcomes' = outcomes

\* C23: in check_all_services and validate_fork_pr_base_images every
\* invocation and sleep of one item's check comes before the first
\* invocation of the next item's check, and each check starts with a budget
\* of 3 attempts, no attempt made and a first backoff of 1.
C23_LocalRetries ==
    /\ []C23_OneCheckAtATime
    /\ [][C23_FreshStart /\ C23_StepOfCurrent]_vars

\* the first check of a batch ended in an error; the second is in its
\* second attempt after a sleep of 1, with the budget of 3
C23_Witness ==
    /\ op = "check_all_services"
    /\ outcomes = <<"GHCRError">>
    /\ Len(checked) = 2
    /\ CheckUnderWay
    /\ retries = 3
    /\ attempt = 1
    /\ Len(calls) = 1
    /\ sleeps = <<1>>

----------------------------------------------------------------------------
(* C24: services whose build file gives no reference *)

\* the build file of service cannot be read or has no FROM reference
NoReferences(service, files) ==
    LET file == files[service.dockerfile_path]
    IN  ~file.readable \/ parse_from_lines(file.content) = <<>>

\* list without its i-th member
Without(list, i) == SubSeq(list, 1, i - 1) \o SubSeq(list, i + 1, Len(list))

\* C24: a service whose build file is missing, unreadable or without a FROM
\* reference is in no list of the map, and the map is the one the call gives
\* for the list of services without it.
C24_SkippedService ==
    Returned("build_reverse_dependency_map") =>
        \A i \in 1..Len(args.services) :
            NoReferences(args.services[i], args.files) =>
                /\ \A d \in DOMAIN ret[1] :
                       ~InSeq(args.services[i].service_name, ret[1][d])
                /\ ret[1] = build_reverse_dependency_map(
                                Without(args.services, i), args.base_image_mapping,
                                args.files)

\* the first service has no build file, the second is built on a mapped
\* base image: the map lists the second alone
C24_Witness ==
    /\ Returned("build_reverse_dependency_map")
    /\ Len(args.services) = 2
    /\ args.services[1].service_name = MQTT
    /\ args.services[2].service_name = AUTOMATIONS
    /\ args.files[DockerfilePath(MQTT)] = NoFile
    /\ args.files[DockerfilePath(AUTOMATIONS)] = File(<<From(<<NODE>>)>>)
    /\ ret[1] = (NODE_18_ALPINE :> <<AUTOMATIONS>>)

\* the first service's build file is read and has no FROM reference
C24_WitnessNoFrom ==
    /\ Returned("build_reverse_dependency_map")
    /\ Len(args.services) = 2
    /\ args.files[args.services[1].dockerfile_path] = File(<<>>)
    /\ DOMAIN ret[1] # {}

----------------------------------------------------------------------------
(* C25: the external base image of the final stage *)

\* the stage aliases a list of references declares
Declared(from_lines) ==
    {from_lines[i].stage : i \in {j \in 1..Len(from_lines) : from_lines[j].stage # None}}

\* the alias map: each alias with the image of the last reference declaring it
AliasMap(from_lines) ==
    [a \in Declared(from_lines) |->
        LET at == {i \in 1..Len(from_lines) : from_lines[i].stage = a}
        IN  from_lines[CHOOSE i \in at : \A j \in at : j <= i].image]

\* image after at most n alias substitutions
RECURSIVE Resolve(_, _, _)
Resolve(aliases, image, n) ==
    IF n = 0 \/ image \notin DOMAIN aliases THEN image
    ELSE Resolve(aliases, aliases[image], n - 1)

\* the chain of aliases from image leaves the alias map: it has no cycle
ChainEnds(aliases, image) ==
    Resolve(aliases, image, Cardinality(DOMAIN aliases)) \notin DOMAIN aliases

\* C25: extract_final_stage_base returns None iff the file has no FROM
\* reference; otherwise the result comes from the image of the last
\* reference by alias substitutions, and when the chain of aliases from that
\* image has no cycle the result is the end of the chain and not a declared
\* stage alias.
C25_UltimateBase ==
    Returned("extract_final_stage_base") =>
        LET from_lines == parse_from_lines(args.dockerfile_content)
            aliases == AliasMap(from_lines)
        IN  /\ ret[1] = None <=> from_lines = <<>>
            /\ from_lines # <<>> =>
                  LET final_image == from_lines[Len(from_lines)].image
                  IN  /\ \E n \in 0..Cardinality(DOMAIN aliases) :
                             ret[1] = Resolve(aliases, final_image, n)
                      /\ ChainEnds(aliases, final_image) =>
                             /\ ret[1] = Resolve(aliases, final_image,
                                                 Cardinality(DOMAIN aliases))
                             /\ ret[1] \notin DOMAIN aliases

\* three stages, each built on the one before: the external image of the
\* first is returned after two substitutions
C25_Witness ==
    /\ Returned("extract_final_stage_base")
    /\ args.dockerfile_content =
           <<From(<<UPSTREAM, <<"AS">>, <<"a">>>>),
             From(<<<<"a">>, <<"AS">>, <<"b">>>>),
             From(<<<<"b">>>>)>>
    /\ locals.substitutions = 2
    /\ ret[1] = UPSTREAM

\* a file of instructions without a FROM reference: None
C25_WitnessNone ==
    /\ Returned("extract_final_stage_base")
    /\ args.dockerfile_content = <<Run, Run>>
    /\ ret[1] = None

----------------------------------------------------------------------------
(* C29: has_healthcheck and parse_healthcheck_params agree *)

HasFrom(structure) == \E i \in 1..Len(structure) : IsFrom(structure[i])

\* the value of a HEALTHCHECK instruction is the one word NONE, in any case
BareNone(instruction) ==
    instruction.value \in {<<<<"NONE">>>>, <<<<"none">>>>, <<<<"None">>>>}

\* the file has a FROM, a HEALTHCHECK follows the last one, and the first
\* that does is not a bare NONE
EnabledInFinalStage(structure) ==
    /\ HasFrom(structure)
    /\ LET stage == FinalStage(structure)
           at == {i \in 1..Len(stage) : IsHealthcheck(stage[i])}
       IN  /\ at # {}
           /\ ~BareNone(stage[CHOOSE i \in at : \A j \in at : i <= j])

\* C29: on every build file has_healthcheck is true iff
\* parse_healthcheck_params is not None, and both are decided by the first
\* HEALTHCHECK instruction after the last FROM, a bare NONE there giving
\* false and None.
C29_Agreement ==
    /\ Returned("has_healthcheck") =>
           /\ ret[1] <=> ~IsNone(parse_healthcheck_params(args.dockerfile_content))
           /\ ret[1] <=> EnabledInFinalStage(args.dockerfile_content)
    /\ Returned("parse_healthcheck_params") =>
           /\ ~IsNone(ret[1]) <=> has_healthcheck(args.dockerfile_content)
           /\ ~IsNone(ret[1]) <=> EnabledInFinalStage(args.dockerfile_content)

\* a final stage with flags, CMD and a quoted argument: the parameters
C29_Witness ==
    /\ Returned("parse_healthcheck_params")
    /\ Len(args.dockerfile_content) = 3
    /\ args.dockerfile_content[1] = From(<<NODE>>)
    /\ args.dockerfile_content[2] = Run
    /\ Len(args.dockerfile_content[3].value) = 5
    /\ ret[1] = [interval |-> <<"30s">>, timeout |-> None, start_period |-> None,
                 retries |-> None,
                 cmd |-> <<"echo", " ", "'", "is", " ", "ok", "'">>]
    /\ has_healthcheck(args.dockerfile_content)

\* a bare NONE in lower case before another HEALTHCHECK of the final
\* stage: None and false
C29_WitnessNone ==
    /\ Returned("parse_healthcheck_params")
    /\ args.dockerfile_content =
           <<From(<<NODE>>), Healthcheck("healthcheck", <<<<"none">>>>),
             Healthcheck("HEALTHCHECK", <<<<"CMD">>, <<"echo">>>>)>>
    /\ IsNone(ret[1])
    /\ ~has_healthcheck(args.dockerfile_content)

----------------------------------------------------------------------------
(* C26: the services that are discovered *)

\* the build directive is a non-empty path string or a structure with a
\* non-empty context
Buildable(service_config) ==
    /\ "build" \in DOMAIN service_config
    /\ LET build == service_config["build"]
       IN  \/ build.type = "str" /\ build.value # <<>>
           \/ /\ build.type = "dict"
              /\ "context" \in DOMAIN build.items
              /\ build.items["context"] # <<>>

\* the image is present and is one of the repository's registry
RegistryImage(service_config) ==
    /\ "image" \in DOMAIN service_config
    /\ IsPrefix(<<"ghcr.io", "/", "groupsky", "/", "homy", "/">>, service_config["image"])

\* the names of the section's services that are to be retained, in order
RECURSIVE RetainedNames(_)
RetainedNames(section) ==
    IF section = <<>> THEN <<>>
    ELSE (IF Buildable(Head(section)[2]) /\ RegistryImage(Head(section)[2])
          THEN <<Head(section)[1]>> ELSE <<>>)
             \o RetainedNames(Tail(section))

\* C26: the services discovered are those of the section that have a
\* build directive with a non-empty path or context and an image under
\* 'ghcr.io/groupsky/homy/', each once, in the order of the section,
\* whether or not they share a build context.
C26_Retained ==
    (Returned("discover_services_from_compose") /\ ret[1].raised = "none") =>
        Names(ret[1].services) = RetainedNames(args.completed.stdout.services)

\* two services with one image and one build context, one by the short
\* notation: both are discovered, in the order of the section
C26_Witness ==
    /\ Returned("discover_services_from_compose")
    /\ Len(args.completed.stdout.services) = 2
    /\ Len(ret[1].services) = 2
    /\ ret[1].services[1].service_name = MQTT
    /\ ret[1].services[2].service_name = AUTOMATIONS
    /\ ret[1].services[1].build_context = MQTT_INFLUX_DIR
    /\ ret[1].services[2].build_context = MQTT_INFLUX_DIR
    /\ ret[1].services[1].dockerfile_path = MQTT_INFLUX_DIR \o <<"/", "Dockerfile">>

\* a service of another registry path is dropped, the one after it kept
C26_WitnessDropped ==
    /\ Returned("discover_services_from_compose")
    /\ Len(args.completed.stdout.services) = 2
    /\ "image" \in DOMAIN args.completed.stdout.services[1][2]
    /\ IsPrefix(REGISTRY \o <<"-extra">>, args.completed.stdout.services[1][2]["image"])
    /\ Names(ret[1].services) = <<FEATURES>>
    /\ ret[1].services[1].dockerfile_path
           = <<"docker", "/", "mosquitto", "/", "Dockerfile.prod">>

----------------------------------------------------------------------------
(* C22: the gate of fork pull requests *)

\* main is past step 6 of a fork's run with a changed base image
GateCase ==
    /\ fn = "main"
    /\ args.is_fork
    /\ locals.changed_base_dirs # <<>>
    /\ locals.pc \notin {"step1", "step3", "step4", "step5", "step6", "step7"}

\* validate_fork_pr_base_images has raised
ValidationFailed ==
    /\ fn = "main"
    /\ op = "validate_fork_pr_base_images"
    /\ caller_pc \notin {"loop", "checking", "returned"}

\* event a precedes event b wherever both are in the trace
Precedes(a, b, trace) ==
    \A i, j \in 1..Len(trace) : (trace[i] = b /\ trace[j] = a) => j < i

C22_Gate ==
    fn = "main" =>
        /\ ValidationFailed =>
               /\ GateCase
               /\ locals.pc \in {"step7_validate", "exit"}
               /\ ~InSeq("check_all_services", locals.trace)
               /\ ~InSeq("write_github_output", locals.trace)
               /\ locals.output_file = <<>>
               /\ services = <<>>
               /\ Range(checked) \subseteq Range(locals.base_images_needed)
               /\ ret \in {<<>>, <<1>>}
               /\ locals.pc = "exit" => ret = <<1>>
        /\ GateCase => locals.trace # <<>>
                           /\ locals.trace[1] = "validate_fork_pr_base_images"
        /\ Precedes("validate_fork_pr_base_images", "check_all_services", locals.trace)
        /\ op = "check_all_services" => ~InSeq("sys.exit", locals.trace)

\* the only step of main after a failed validation is the exit with status 1
C22_ExitNext ==
    (ValidationFailed /\ locals.pc = "step7_validate" /\ locals' # locals) =>
        /\ locals'.pc = "exit"
        /\ ret' = <<1>>
        /\ locals'.trace = <<"validate_fork_pr_base_images", "sys.exit">>

\* C22: in a fork's run with a changed base image, a failure of
\* validate_fork_pr_base_images ends the run with status 1, before
\* check_all_services is called and without the output file being written;
\* in every run the validation precedes the checks of the services.
C22_ForkGate == []C22_Gate /\ [][C22_ExitNext]_vars

\* a fork's run, two changed base images, the first in the registry and
\* the second not: exit with status 1 after the validation alone
C22_Witness ==
    /\ fn = "main"
    /\ args.is_fork
    /\ locals.pc = "exit"
    /\ ret = <<1>>
    /\ Len(locals.base_images_needed) = 2
    /\ outcomes = <<"True", "False">>
    /\ Len(missing_images) = 1
    /\ locals.trace = <<"validate_fork_pr_base_images", "sys.exit">>
    /\ locals.output_file = <<>>

\* a fork's run whose validation passed goes on to the services
C22_WitnessPassed ==
    /\ fn = "main"
    /\ args.is_fork
    /\ locals.pc = "returned"
    /\ locals.trace = <<"validate_fork_pr_base_images", "check_all_services",
                        "write_github_output">>

----------------------------------------------------------------------------
(* C28: the services to build and to retag *)

AfterStep8 == fn = "main" /\ locals.pc \in {"step9", "returned"}

\* C28: after step 8 of main to_build and to_retag have no service in
\* common and hold together the changed and the affected services and no
\* other; a discovered service that is neither is in neither list and its
\* image has not been looked for in the registry.
C28_BuildOrRetag ==
    AfterStep8 =>
        LET build == Range(locals.services_to_build)
            retag == Range(locals.services_to_retag)
            wanted == Range(locals.changed_services) \cup Range(locals.affected_services)
        IN  /\ build \cap retag = {}
            /\ build \cup retag = wanted
            /\ NoDuplicates(locals.services_to_build)
            /\ NoDuplicates(locals.services_to_retag)
            /\ \A i \in 1..Len(args.services) :
                   args.services[i].service_name \notin wanted =>
                       /\ args.services[i].service_name \notin build \cup retag
                       /\ ~InSeq(TagOf(args.services[i]), checked)
            /\ Len(checked) = Cardinality(wanted)

\* a changed service is to build and an affected one to retag; the third
\* service is not looked for
C28_Witness ==
    /\ fn = "main"
    /\ locals.pc = "returned"
    /\ locals.changed_services = <<FEATURES>>
    /\ locals.affected_services = <<AUTOMATIONS>>
    /\ locals.services_to_retag = <<AUTOMATIONS>>
    /\ locals.services_to_build = <<FEATURES>>
    /\ Len(checked) = 2
    /\ Len(locals.output_file) = 1
    /\ locals.output_file[1].to_build = <<FEATURES>>

====
